---- MODULE Spec2Model ----
(***************************************************************************)
(* Work-status scheduler and stitching pipeline of                         *)
(* global_ndr_plus_pipeline.py: the driver (main), the unit runner         *)
(* (ndr_plus_and_stitch), the aggregator (stitch_worker), the sqlite       *)
(* work_status table, the raster validator (detect_invalid_values), the    *)
(* raster scrubber (scrub_raster) and the progress reporter                *)
(* (_report_watershed_count).                                              *)
(***************************************************************************)
EXTENDS Integers, Sequences, FiniteSets, TLC

(***************************************************************************)
(* Generic helpers.                                                        *)
(***************************************************************************)
Range(seq) == {seq[i] : i \in 1..Len(seq)}

Abs(x) == IF x < 0 THEN -x ELSE x

(***************************************************************************)
(* Raster cells.  A finite cell value is an integer number of ticks, one   *)
(* tick being 1/TICKS_PER_UNIT (-9999.0001 is -99990001 ticks).  Values a  *)
(* tick count cannot hold are symbolic: "huge" is a finite value of        *)
(* magnitude 1e35 (>= max_abs = 1e30), "inf" an infinity, both signed by   *)
(* v = 1 or v = -1, and "nan" is not-a-number.                             *)
(***************************************************************************)
TICKS_PER_UNIT == 10000

Fin(v) == [k |-> "finite", v |-> v]
Huge(sign) == [k |-> "huge", v |-> sign]
Inf(sign) == [k |-> "inf", v |-> sign]
NaN == [k |-> "nan", v |-> 0]

\* rtol=0.001 of detect_invalid_values and scrub_raster, as 1/RTOL_INV
RTOL_INV == 1000
\* numpy.isclose's own default rtol=1e-05, as 1/NUMPY_RTOL_INV
NUMPY_RTOL_INV == 100000

\* numpy.isfinite
isfinite(c) == c.k \in {"finite", "huge"}

\* numpy.isclose(a, b, rtol=1/rtol_inv) with its default atol=1e-08:
\* |a - b| <= atol + rtol * |b|.  In ticks, with D = |a - b|:
\*   D/T <= 1e-8 + |b|/(T*rtol_inv)  <=>  D*rtol_inv <= rtol_inv/T + |b|
\* and, D*rtol_inv and |b| being integers, <=> D <= (|b| + rtol_inv \div T)
\* \div rtol_inv.  Infinities and the huge values are close only to
\* themselves, a nan to nothing.
isclose(a, b, rtol_inv) ==
    IF a.k = "nan" \/ b.k = "nan" THEN FALSE
    ELSE IF a.k = "finite" /\ b.k = "finite"
    THEN Abs(a.v - b.v)
            <= (Abs(b.v) + (rtol_inv \div TICKS_PER_UNIT)) \div rtol_inv
    ELSE a = b

\* numpy.abs(c) >= max_abs, for max_abs = 1e30
abs_ge_max_abs(c) == c.k \in {"huge", "inf"}

(***************************************************************************)
(* detect_invalid_values.  A raster is [nodata, blocks]: nodata a cell or  *)
(* NoNodata (None), blocks the sequence of blocks iterblocks yields, each  *)
(* a sequence of cells.  The result is True or the reason of the first     *)
(* offending condition with the block it was found in.                     *)
(***************************************************************************)
NoNodata == [k |-> "none", v |-> 0]

True == [reason |-> "True", block |-> 0]

AnyCell(block, P(_)) == \E i \in 1..Len(block) : P(block[i])

non_finite_mask(c) == ~isfinite(c)

close_to_nodata_mask(c, base_nodata, rtol_inv) ==
    isclose(c, base_nodata, rtol_inv)
        /\ ~isclose(c, base_nodata, NUMPY_RTOL_INV)

large_value_mask(c, base_nodata) ==
    /\ abs_ge_max_abs(c)
    /\ (base_nodata # NoNodata => ~isclose(c, base_nodata, NUMPY_RTOL_INV))

\* one pass of the loop body over block i
detect_block(block, base_nodata, rtol_inv) ==
    IF AnyCell(block, non_finite_mask)
    THEN "non_finite"
    ELSE IF base_nodata # NoNodata
            /\ AnyCell(block, LAMBDA c :
                    close_to_nodata_mask(c, base_nodata, rtol_inv))
    THEN "close_to_nodata"
    ELSE IF AnyCell(block, LAMBDA c : large_value_mask(c, base_nodata))
    THEN "large_value"
    ELSE "ok"

RECURSIVE detect_from(_, _, _)
detect_from(raster, i, rtol_inv) ==
    IF i > Len(raster.blocks) THEN True
    ELSE LET found == detect_block(raster.blocks[i], raster.nodata, rtol_inv)
         IN  IF found # "ok" THEN [reason |-> found, block |-> i]
             ELSE detect_from(raster, i + 1, rtol_inv)

detect_invalid_values(raster, rtol_inv) == detect_from(raster, 1, rtol_inv)

(***************************************************************************)
(* scrub_raster.  The target file is "absent", some "other file", or the   *)
(* "base file" itself (os.path.samefile).  The outcome of a call is the    *)
(* exception it raised, or the raster it wrote with its three counters and *)
(* the line it logged.                                                     *)
(***************************************************************************)
\* the (block, index) positions of the cells of a raster
Positions(raster) ==
    UNION { {<<b, i>> : i \in 1..Len(raster.blocks[b])} :
                b \in 1..Len(raster.blocks) }

CellAt(raster, pos) == raster.blocks[pos[1]][pos[2]]

\* numpy.count_nonzero of a mask, summed over the blocks by the nonlocal +=
count_nonzero(raster, mask(_)) ==
    Cardinality({pos \in Positions(raster) : mask(CellAt(raster, pos))})

\* the tests of the arguments without the test of two differing nodata
\* values
scrub_raises_without_conflict_test(base_nodata, target_is, target_nodata) ==
    IF target_is = "base file" THEN "same file"
    ELSE IF base_nodata = NoNodata /\ target_nodata = NoNodata
    THEN "both None"
    ELSE ""

\* Python's != on two nodata values that are not None: a nan differs from
\* everything, itself included
nodata_ne(a, b) == a.k = "nan" \/ b.k = "nan" \/ a # b

\* lines 294-309: the ValueError the arguments are rejected with, "" if none
scrub_raises(base_nodata, target_is, target_nodata) ==
    IF target_is # "absent" /\ target_is = "base file" THEN "same file"
    ELSE IF base_nodata = NoNodata /\ target_nodata = NoNodata
    THEN "both None"
    ELSE IF /\ base_nodata # NoNodata
            /\ target_nodata # NoNodata
            /\ nodata_ne(base_nodata, target_nodata)
    THEN "nodata conflict"
    ELSE ""

\* _scrub_op on one cell: result after `result[non_finite_mask] = ...`
after_non_finite(c, scrub_nodata) ==
    IF ~isfinite(c) THEN scrub_nodata ELSE c

\* large_value_mask is computed on result, not on base_array
scrub_large_value_mask(c, scrub_nodata) ==
    abs_ge_max_abs(after_non_finite(c, scrub_nodata))

after_large_value(c, scrub_nodata) ==
    IF scrub_large_value_mask(c, scrub_nodata) THEN scrub_nodata
    ELSE after_non_finite(c, scrub_nodata)

\* numpy.isclose(result, scrub_nodata, rtol=rtol)
scrub_close_to_nodata_mask(c, scrub_nodata, rtol_inv) ==
    isclose(after_large_value(c, scrub_nodata), scrub_nodata, rtol_inv)

_scrub_op(c, scrub_nodata, rtol_inv) ==
    IF scrub_close_to_nodata_mask(c, scrub_nodata, rtol_inv)
    THEN scrub_nodata
    ELSE after_large_value(c, scrub_nodata)

\* a raster file that does not exist
NoRaster == [nodata |-> NoNodata, blocks |-> << >>]

scrub_raster(base_raster, target_is, target_nodata, rtol_inv) ==
    LET base_nodata == base_raster.nodata
        exception == scrub_raises(base_nodata, target_is, target_nodata)
        scrub_nodata == IF target_nodata = NoNodata THEN base_nodata
                        ELSE target_nodata
        non_finite_count == count_nonzero(base_raster, non_finite_mask)
        large_value_count ==
            count_nonzero(base_raster,
                LAMBDA c : scrub_large_value_mask(c, scrub_nodata))
        close_to_nodata ==
            count_nonzero(base_raster,
                LAMBDA c : scrub_close_to_nodata_mask(c, scrub_nodata,
                                                      rtol_inv))
    IN  IF exception # ""
        THEN [exception |-> exception, written |-> FALSE,
              target |-> NoRaster, non_finite_count |-> 0,
              large_value_count |-> 0, close_to_nodata |-> 0, log |-> ""]
        ELSE [exception |-> "", written |-> TRUE,
              target |->
                [nodata |-> scrub_nodata,
                 blocks |->
                    [b \in 1..Len(base_raster.blocks) |->
                        [i \in 1..Len(base_raster.blocks[b]) |->
                            _scrub_op(base_raster.blocks[b][i], scrub_nodata,
                                      rtol_inv)]]],
              non_finite_count |-> non_finite_count,
              large_value_count |-> large_value_count,
              close_to_nodata |-> close_to_nodata,
              log |-> IF non_finite_count # 0 \/ large_value_count # 0
                            \/ close_to_nodata # 0
                      THEN "scrubbed these values" ELSE "is CLEAN"]

(***************************************************************************)
(* Configuration of a run.                                                 *)
(***************************************************************************)
SCHEDULED_STATUS == "scheduled"
COMPUTED_STATUS == "computed"
COMPLETE_STATUS == "complete"
\* f'exception happened: {e}'
ExceptionStatus == "exception happened: ndr_plus raised"
PutExceptionStatus == "exception happened: put raised"
\* the status the except clause writes, from where the exception came
failure_tag(task_state) ==
    IF task_state = "put_except" THEN PutExceptionStatus ELSE ExceptionStatus

\* the keys of SCENARIOS, in the order the dict is iterated
SCENARIOS == <<"s1", "s2">>
ScenarioIds == Range(SCENARIOS)

\* the two rasters a unit writes and the two mosaics of a scenario
Kinds == {"export", "modified_load"}

\* 0.000016 * 10 square degrees, in units of 1e-6 square degrees
AREA_DEG_THRESHOLD == 160

\* the items of ECOSHARDS, in iteration order, with the path each id was
\* downloaded to; ids may share one file
ECOSHARD_ITEMS ==
    << [id |-> "global_dem_3s", path |-> "global_dem_3s.zip"],
       [id |-> "precip", path |-> "precip.tif"],
       [id |-> "precip_alias", path |-> "precip.tif"],
       [id |-> "lulc", path |-> "lulc.tif"] >>

\* the downloaded paths pygeoprocessing.get_gis_type reports as RASTER_TYPE
RasterPaths == {"precip.tif", "lulc.tif"}

EcoshardIds == {ECOSHARD_ITEMS[i].id : i \in 1..Len(ECOSHARD_ITEMS)}

\* lines 714-725: ecoshard_path_map as the download loop leaves it
DownloadedPathMap ==
    [id \in EcoshardIds |->
        LET i == CHOOSE j \in 1..Len(ECOSHARD_ITEMS) :
                    ECOSHARD_ITEMS[j].id = id
        IN  ECOSHARD_ITEMS[i].path]

\* the ids scenario_module.SCRUB_IDS names
SCRUB_IDS == {"lulc"}

\* os.path.join(SCRUB_DIR, os.path.basename(ecoshard_path))
scrub_path_of(ecoshard_path) ==
    IF ecoshard_path = "lulc.tif" THEN "scrubbed_ecoshards/lulc.tif"
    ELSE IF ecoshard_path = "precip.tif"
    THEN "scrubbed_ecoshards/precip.tif"
    ELSE "scrubbed_ecoshards/global_dem_3s.zip"

\* a scrubbed copy of a raster is a raster
get_gis_type_is_raster(path) ==
    path \in RasterPaths \cup {scrub_path_of(p) : p \in RasterPaths}

\* scenario -> the ids of its 'lulc_id' and 'precip_id' entries
SCENARIO_VARS ==
    [s \in {"s1", "s2"} |->
        [lulc_id |-> "lulc",
         precip_id |-> IF s = "s1" THEN "precip" ELSE "precip_alias"]]

\* polygons of the watershed vector: feature id -> area (1e-6 deg^2).  The
\* vector may be re-digitised between two runs.
Fids == 0..3
Layers ==
    { [f \in Fids |-> <<100, 160, 200, 300>>[f + 1]],
      [f \in Fids |-> <<100, 160, 250, 300>>[f + 1]] }

\* rasters the inputs may hold
NODATA == Fin(-9999 * TICKS_PER_UNIT)
InputRasters ==
    { [nodata |-> NODATA, blocks |-> << <<Fin(TICKS_PER_UNIT), NODATA>> >>],
      [nodata |-> NODATA,
       blocks |-> << <<Fin(TICKS_PER_UNIT)>>, <<NODATA, Huge(1)>> >>] }

\* values of --watersheds; << >> is the option left out (None)
WatershedArgs == { << >>, <<2>> }

\* bounds of the model: starts of the pipeline, failing operations (a call
\* of ndr_plus or of stitch_rasters that raises or breaks its contract), and
\* the batch length the pipeline is explored with
MaxRuns == 2
MaxFaults == 1
ScaledBatch == 2

(***************************************************************************)
(* The work_status table: a set of rows.                                   *)
(***************************************************************************)
Row(scenario_id, watershed_id, watershed_area, status) ==
    [scenario_id |-> scenario_id, watershed_id |-> watershed_id,
     watershed_area |-> watershed_area, status |-> status]

HasRow(table, scenario_id, watershed_id) ==
    \E r \in table :
        r.scenario_id = scenario_id /\ r.watershed_id = watershed_id

\* INSERT OR REPLACE in place of INSERT OR IGNORE: a row whose primary key is
\* present is overwritten
RECURSIVE insert_or_replace(_, _)
insert_or_replace(table, argument_list) ==
    IF argument_list = << >> THEN table
    ELSE LET a == Head(argument_list)
             kept == {r \in table :
                        ~(r.scenario_id = a[1] /\ r.watershed_id = a[2])}
         IN  insert_or_replace(kept \cup {Row(a[1], a[2], a[3], a[4])},
                               Tail(argument_list))

\* INSERT OR IGNORE INTO work_status VALUES(?, ?, ?, ?), executemany over
\* argument_list: a row whose primary key is present is skipped
RECURSIVE insert_or_ignore(_, _)
insert_or_ignore(table, argument_list) ==
    IF argument_list = << >> THEN table
    ELSE LET a == Head(argument_list)
             next == IF HasRow(table, a[1], a[2]) THEN table
                     ELSE table \cup {Row(a[1], a[2], a[3], a[4])}
         IN  insert_or_ignore(next, Tail(argument_list))

\* UPDATE work_status SET status=? WHERE scenario_id=? AND watershed_id=?,
\* executemany over watershed_id_status_list, in one transaction: a row
\* ends with the status of the last entry naming its key
_set_work_status(table, watershed_id_status_list) ==
    LET entries(r) == {i \in 1..Len(watershed_id_status_list) :
                        /\ watershed_id_status_list[i][2] = r.scenario_id
                        /\ watershed_id_status_list[i][3] = r.watershed_id}
        last(S) == CHOOSE i \in S : \A j \in S : j <= i
    IN  { IF entries(r) = {} THEN r
          ELSE [r EXCEPT !.status =
                    watershed_id_status_list[last(entries(r))][1]] :
          r \in table }

\* rows in ORDER BY watershed_area DESC
\* ORDER BY watershed_area ASC
RECURSIVE order_by_area_asc(_)
order_by_area_asc(rows) ==
    IF rows = {} THEN << >>
    ELSE LET top == CHOOSE r \in rows :
                        \A q \in rows : q.watershed_area >= r.watershed_area
         IN  <<top.watershed_id>> \o order_by_area_asc(rows \ {top})

RECURSIVE order_by_area_desc(_)
order_by_area_desc(rows) ==
    IF rows = {} THEN << >>
    ELSE LET top == CHOOSE r \in rows :
                        \A q \in rows : q.watershed_area <= r.watershed_area
         IN  <<top.watershed_id>> \o order_by_area_desc(rows \ {top})

\* the query with `status=?` for the scheduled status in place of
\* `status!=?` for the complete one
select_scheduled_only(table, scenario_id, status) ==
    order_by_area_desc(
        {r \in table :
            r.scenario_id = scenario_id /\ r.status = SCHEDULED_STATUS})

\* SELECT watershed_id FROM work_status WHERE scenario_id=? AND status!=?
\* ORDER BY watershed_area DESC
watersheds_to_process_query(table, scenario_id, status) ==
    order_by_area_desc(
        {r \in table : r.scenario_id = scenario_id /\ r.status # status})

\* the area filter with >= in place of >
process_list_with_threshold_included(layer) ==
    LET keep(f) == layer[f] >= AREA_DEG_THRESHOLD
        RECURSIVE from(_)
        from(f) == IF f \notin Fids THEN << >>
                   ELSE (IF keep(f) THEN << <<f, layer[f]>> >> ELSE << >>)
                            \o from(f + 1)
    IN  from(0)

\* the watersheds of one vector file that are large enough
local_watershed_process_list(layer) ==
    LET keep(f) == layer[f] > AREA_DEG_THRESHOLD
        RECURSIVE from(_)
        from(f) == IF f \notin Fids THEN << >>
                   ELSE (IF keep(f) THEN << <<f, layer[f]>> >> ELSE << >>)
                            \o from(f + 1)
    IN  from(0)

(***************************************************************************)
(* State.                                                                  *)
(***************************************************************************)
VARIABLES
    \* on disk, surviving a killed run
    work_status,          \* the rows of the table
    stitch_raster,        \* <<scenario, kind>> -> "absent" or the set of
                          \*   watersheds merged into that global mosaic
    workspace_dirs,       \* the <<scenario, watershed>> workspaces that exist
    unit_rasters,         \* the <<scenario, watershed, kind>> rasters that exist
    ecoshard_raster,      \* raster path -> content of the input raster
    watershed_layer,      \* the polygons of the watershed vector
    \* command line and driver (main)
    run,                  \* how many times the pipeline was started
    args_watersheds,      \* --watersheds
    main_pc,
    ecoshard_path_map,    \* ecoshard id -> the path main uses for it
    ecoshard_index,       \* position of the validation loop in ECOSHARD_ITEMS
    checked_path_set,
    invalid_value_task_list,
    invalid_raster_list,
    scenario_index,       \* position of a loop over SCENARIOS
    watershed_id_work_list,
    watershed_index,      \* position of the loop over watershed_id_work_list
    \* task graph: <<scenario, watershed>> -> position of ndr_plus_and_stitch
    task,
    \* per scenario: its queue and its stitch_worker thread
    stitch_queue,
    stitch_batch_size,    \* the batch length of the flush test
    stitcher,             \* the locals of stitch_worker
    stitch_thread,        \* <<scenario, kind>> -> the stitch_rasters thread
    stitch_calls,         \* lengths of the raster lists of each flush
    status_calls,         \* lengths of the lists of each batched update
    overview_calls,       \* <<scenario, kind>> -> finalize passes of the run
    \* the environment
    faults,               \* how many operations have failed so far
    \* one call of _execute_sqlite through its retrying.retry decorator
    sqlite_call,
    \* one call of scrub_raster
    scrub_call,
    \* one call of _create_watershed_id followed by _split_watershed_id
    id_call,
    \* the locals of the _report_watershed_count thread
    reporter

disk == <<work_status, stitch_raster, workspace_dirs, unit_rasters,
          ecoshard_raster, watershed_layer>>
driver == <<run, args_watersheds, main_pc, ecoshard_path_map, ecoshard_index,
            checked_path_set,
            invalid_value_task_list, invalid_raster_list, scenario_index,
            watershed_id_work_list, watershed_index>>
stitching == <<stitch_queue, stitch_batch_size, stitcher, stitch_thread,
               stitch_calls, status_calls, overview_calls>>
vars == <<disk, driver, task, stitching, faults, sqlite_call, scrub_call, id_call,
         reporter>>

Units == ScenarioIds \X Fids
Mosaics == ScenarioIds \X Kinds

\* the payload a runner puts: (export_raster_path, modified_load_raster_path,
\* workspace_dir, watershed_basename, watershed_id); the terminal marker None
\* is the empty tuple
NonePayload == << >>
StitchPayload(scenario_id, watershed_id) ==
    << <<scenario_id, watershed_id, "export">>,
       <<scenario_id, watershed_id, "modified_load">>,
       <<scenario_id, watershed_id>>, "basename", watershed_id >>

\* the locals of a stitch_worker invocation as it starts
StitcherLocals(pc, attempt_number, remove_workspaces) ==
    [pc |-> pc, attempt_number |-> attempt_number,
     remove_workspaces |-> remove_workspaces,
     payload |-> NonePayload,
     export_raster_list |-> << >>, modified_load_raster_list |-> << >>,
     workspace_list |-> << >>, status_update_list |-> << >>]

\* a global mosaic file that was never created
AbsentRaster == [exists |-> FALSE, merged |-> {}]

\* no call of _execute_sqlite is followed
NoSqliteCall ==
    [pc |-> "idle", attempt_number |-> 0, sleep |-> 0,
     mode |-> "read_only", execute |-> "execute", fetch |-> "None",
     rows |-> << >>, result |-> << >>, exception |-> "",
     connection |-> "None"]

\* no call of scrub_raster is followed
NoScrubCall ==
    [pc |-> "idle", base_raster |-> NoRaster, target_is |-> "absent",
     target_before |-> NoRaster, target_nodata |-> NoNodata,
     exception |-> "", target |-> NoRaster, non_finite_count |-> 0,
     large_value_count |-> 0, close_to_nodata |-> 0, log |-> ""]

\* no call of _create_watershed_id is followed; a str is the sequence of
\* its characters
NoIdCall ==
    [pc |-> "idle", watershed_path |-> << >>, watershed_fid |-> 0,
     watershed_basename |-> << >>, watershed_id |-> << >>,
     basename |-> << >>, fid |-> 0, exception |-> ""]

\* seconds_left is a quotient num/den, the literal 99999999999, or not yet
\* assigned
NoSecondsLeft == [k |-> "unassigned", num |-> 0, den |-> 1]

\* the _report_watershed_count thread is not started
NoReporter ==
    [pc |-> "unstarted", mode |-> "", now |-> 0, start_time |-> 0,
     polls |-> 0, original_watershed_to_process_count |-> 0,
     current_remaining_to_process |-> 0, processed_so_far |-> 0,
     seconds_so_far |-> 0, seconds_left |-> NoSecondsLeft,
     exception |-> ""]

\* the task graph, queues and threads of a process that has just started
NoTasks == [u \in Units |-> "none"]
EmptyQueues == [s \in ScenarioIds |-> << >>]
NoStitchers == [s \in ScenarioIds |-> StitcherLocals("unstarted", 1, TRUE)]
IdleThreads == [m \in Mosaics |-> "idle"]
NoCalls == [s \in ScenarioIds |-> << >>]
NoOverviews == [m \in Mosaics |-> 0]

Init ==
    /\ work_status = {}
    /\ stitch_raster = [m \in Mosaics |-> AbsentRaster]
    /\ workspace_dirs = {}
    /\ unit_rasters = {}
    /\ ecoshard_raster \in [RasterPaths -> InputRasters]
    /\ watershed_layer \in Layers
    /\ run = 1
    /\ args_watersheds \in WatershedArgs
    /\ main_pc = "scrub"
    /\ ecoshard_path_map = DownloadedPathMap
    /\ ecoshard_index = 1
    /\ checked_path_set = {}
    /\ invalid_value_task_list = << >>
    /\ invalid_raster_list = << >>
    /\ scenario_index = 1
    /\ watershed_id_work_list = << >>
    /\ watershed_index = 1
    /\ task = NoTasks
    /\ stitch_queue = EmptyQueues
    /\ stitch_batch_size = ScaledBatch
    /\ stitcher = NoStitchers
    /\ stitch_thread = IdleThreads
    /\ stitch_calls = NoCalls
    /\ status_calls = NoCalls
    /\ overview_calls = NoOverviews
    /\ faults = 0
    /\ sqlite_call = NoSqliteCall
    /\ scrub_call = NoScrubCall
    /\ id_call = NoIdCall
    /\ reporter = NoReporter

(***************************************************************************)
(* main: the driver.                                                       *)
(***************************************************************************)
\* the scenario of the loop iteration main is in
scenario_id == SCENARIOS[scenario_index]

\* line 757 without effect: every id keeps the path it was downloaded to
path_map_without_scrub_paths(path_map) == path_map

\* line 757, for every id of SCRUB_IDS:
\* ecoshard_path_map[ecoshard_id_to_scrub] = scrub_path
path_map_after_scrub(path_map) ==
    [id \in DOMAIN path_map |->
        IF id \in SCRUB_IDS THEN scrub_path_of(path_map[id])
        ELSE path_map[id]]

\* lines 749-761: a scrub_raster task for every id of SCRUB_IDS, from the
\* path of the id to SCRUB_DIR, the id is given the scrub path, and
\* task_graph.join() returns when the tasks have ended; a task that raised
\* ends main
MainScrub ==
    /\ main_pc = "scrub"
    /\ LET scrub_task(id) ==
                scrub_raster(
                    ecoshard_raster[ecoshard_path_map[id]],
                    IF scrub_path_of(ecoshard_path_map[id])
                            \in DOMAIN ecoshard_raster
                    THEN "other file" ELSE "absent",
                    NoNodata, RTOL_INV)
           written == {id \in SCRUB_IDS : scrub_task(id).written}
           written_to(path) ==
                {id \in written : scrub_path_of(ecoshard_path_map[id]) = path}
           paths == DOMAIN ecoshard_raster
                        \cup {scrub_path_of(ecoshard_path_map[id]) :
                                id \in written}
       IN  /\ ecoshard_raster' =
                [path \in paths |->
                    IF written_to(path) # {}
                    THEN LET id == CHOOSE i \in written_to(path) : TRUE
                         IN  scrub_task(id).target
                    ELSE ecoshard_raster[path]]
           /\ main_pc' = IF written = SCRUB_IDS
                         THEN "validate" ELSE "scrub_raised"
    /\ ecoshard_path_map' = path_map_after_scrub(ecoshard_path_map)
    /\ UNCHANGED <<work_status, stitch_raster, workspace_dirs, unit_rasters,
                   watershed_layer, run, args_watersheds, ecoshard_index,
                   checked_path_set, invalid_value_task_list,
                   invalid_raster_list, scenario_index,
                   watershed_id_work_list, watershed_index, task, stitching,
                   faults, sqlite_call, scrub_call, id_call, reporter>>

\* the test of the loop without `if ecoshard_path in checked_path_set:
\* continue`
to_check_every_id(ecoshard_path, checked) ==
    get_gis_type_is_raster(ecoshard_path)

\* lines 764-767: the path is checked if it was not checked before and is a
\* raster
to_check(ecoshard_path, checked) ==
    ecoshard_path \notin checked /\ get_gis_type_is_raster(ecoshard_path)

\* lines 763-777: one iteration of the loop over ecoshard_path_map.items()
\* that schedules the validation of every distinct raster path; the task's
\* result is what detect_invalid_values(ecoshard_path) returns
MainCheckEcoshard ==
    /\ main_pc = "validate"
    /\ LET ecoshard_id == ECOSHARD_ITEMS[ecoshard_index].id
           ecoshard_path == ecoshard_path_map[ecoshard_id]
           checked == to_check(ecoshard_path, checked_path_set)
       IN  /\ invalid_value_task_list' =
                IF checked
                THEN Append(invalid_value_task_list,
                        [id |-> ecoshard_id, path |-> ecoshard_path,
                         result |-> detect_invalid_values(
                                        ecoshard_raster[ecoshard_path],
                                        RTOL_INV)])
                ELSE invalid_value_task_list
           /\ checked_path_set' =
                IF checked THEN checked_path_set \cup {ecoshard_path}
                ELSE checked_path_set
    /\ ecoshard_index' = ecoshard_index + 1
    /\ main_pc' = IF ecoshard_index' > Len(ECOSHARD_ITEMS)
                  THEN "gate" ELSE "validate"
    /\ UNCHANGED <<disk, run, args_watersheds, ecoshard_path_map,
                   invalid_raster_list, scenario_index,
                   watershed_id_work_list, watershed_index, task, stitching,
                   faults, sqlite_call, scrub_call, id_call, reporter>>

\* the (ecoshard_id, invalid_value_result) of the tasks whose result is not
\* True
RECURSIVE collect_invalid(_)
collect_invalid(task_list) ==
    IF task_list = << >> THEN << >>
    ELSE (IF Head(task_list).result # True
          THEN << <<Head(task_list).id, Head(task_list).result>> >>
          ELSE << >>) \o collect_invalid(Tail(task_list))

\* the gate without its raise: scheduling follows whatever the results
GateThatNeverRaises ==
    /\ main_pc = "gate"
    /\ invalid_raster_list' = collect_invalid(invalid_value_task_list)
    /\ main_pc' = "schedule"
    /\ UNCHANGED <<disk, run, args_watersheds,
                   ecoshard_path_map, ecoshard_index,
                   checked_path_set, invalid_value_task_list, scenario_index,
                   watershed_id_work_list, watershed_index, task, stitching,
                   faults, sqlite_call, scrub_call, id_call, reporter>>

\* lines 778-787: every result is fetched, then main raises ValueError if
\* one of them is not True
MainValidationGate ==
    /\ main_pc = "gate"
    /\ invalid_raster_list' = collect_invalid(invalid_value_task_list)
    /\ main_pc' = IF invalid_raster_list' # << >>
                  THEN "invalid_raised" ELSE "schedule"
    /\ UNCHANGED <<disk, run, args_watersheds,
                   ecoshard_path_map, ecoshard_index,
                   checked_path_set, invalid_value_task_list, scenario_index,
                   watershed_id_work_list, watershed_index, task, stitching,
                   faults, sqlite_call, scrub_call, id_call, reporter>>

\* lines 814-817: the rows to insert for one scenario
schedule_argument_list(sid, process_list) ==
    [i \in 1..Len(process_list) |->
        <<sid, process_list[i][1], process_list[i][2], SCHEDULED_STATUS>>]

\* lines 797-821: one iteration of `for scenario_id in SCENARIOS`, one
\* executemany of the INSERT OR IGNORE
MainSchedule ==
    /\ main_pc = "schedule"
    /\ work_status' = insert_or_ignore(work_status,
            schedule_argument_list(scenario_id,
                local_watershed_process_list(watershed_layer)))
    /\ IF scenario_index < Len(SCENARIOS)
       THEN scenario_index' = scenario_index + 1 /\ main_pc' = "schedule"
       ELSE scenario_index' = 1 /\ main_pc' = "create_export"
    /\ UNCHANGED <<stitch_raster, workspace_dirs, unit_rasters,
                   ecoshard_raster, watershed_layer, run, args_watersheds,
                  
                   ecoshard_path_map, ecoshard_index, checked_path_set,
                   invalid_value_task_list,
                   invalid_raster_list, watershed_id_work_list,
                   watershed_index, task, stitching,
                   faults, sqlite_call, scrub_call, id_call, reporter>>

\* create_empty_wgs84_raster without the os.path.exists test
create_always(raster) == [exists |-> TRUE, merged |-> {}]

\* lines 848-854: create_empty_wgs84_raster if the mosaic does not exist
create_if_absent(raster) ==
    IF raster.exists THEN raster ELSE [exists |-> TRUE, merged |-> {}]

MainCreateEmptyRaster ==
    /\ main_pc \in {"create_export", "create_modified_load"}
    /\ LET kind == IF main_pc = "create_export"
                   THEN "export" ELSE "modified_load"
       IN  stitch_raster' = [stitch_raster EXCEPT ![<<scenario_id, kind>>] =
                                create_if_absent(@)]
    /\ main_pc' = IF main_pc = "create_export"
                  THEN "create_modified_load" ELSE "start_stitch"
    /\ UNCHANGED <<work_status, workspace_dirs, unit_rasters, ecoshard_raster,
                   watershed_layer, run, args_watersheds,
                   ecoshard_path_map, ecoshard_index,
                   checked_path_set, invalid_value_task_list,
                   invalid_raster_list, scenario_index,
                   watershed_id_work_list, watershed_index, task, stitching,
                   faults, sqlite_call, scrub_call, id_call, reporter>>

\* the thread started with remove_workspaces = True whatever --watersheds is
MainStartStitchWorkerThatRemoves ==
    /\ main_pc = "start_stitch"
    /\ stitcher' = [stitcher EXCEPT ![scenario_id] =
                        StitcherLocals("get", 1, TRUE)]
    /\ main_pc' = "query"
    /\ UNCHANGED <<disk, run, args_watersheds,
                   ecoshard_path_map, ecoshard_index,
                   checked_path_set, invalid_value_task_list,
                   invalid_raster_list, scenario_index,
                   watershed_id_work_list, watershed_index, task,
                   stitch_queue, stitch_batch_size, stitch_thread,
                   stitch_calls, status_calls, overview_calls,
                   faults, sqlite_call, scrub_call, id_call, reporter>>

\* lines 859-866: the stitch_worker thread of the scenario is started, with
\* remove_workspaces = (args.watersheds is None)
MainStartStitchWorker ==
    /\ main_pc = "start_stitch"
    /\ stitcher' = [stitcher EXCEPT ![scenario_id] =
                        StitcherLocals("get", 1, args_watersheds = << >>)]
    /\ main_pc' = "query"
    /\ UNCHANGED <<disk, run, args_watersheds,
                   ecoshard_path_map, ecoshard_index,
                   checked_path_set, invalid_value_task_list,
                   invalid_raster_list, scenario_index,
                   watershed_id_work_list, watershed_index, task,
                   stitch_queue, stitch_batch_size, stitch_thread,
                   stitch_calls, status_calls, overview_calls,
                   faults, sqlite_call, scrub_call, id_call, reporter>>

\* lines 868-881: the work list is --watersheds if given, else the rows of
\* the scenario that are not complete
MainQuery ==
    /\ main_pc = "query"
    /\ watershed_id_work_list' =
            IF args_watersheds # << >> THEN args_watersheds
            ELSE watersheds_to_process_query(
                    work_status, scenario_id, COMPLETE_STATUS)
    /\ watershed_index' = 1
    /\ main_pc' = IF watershed_id_work_list' = << >>
                  THEN "join_tasks" ELSE "submit"
    /\ UNCHANGED <<disk, run, args_watersheds,
                   ecoshard_path_map, ecoshard_index,
                   checked_path_set, invalid_value_task_list,
                   invalid_raster_list, scenario_index, task, stitching,
                   faults, sqlite_call, scrub_call, id_call, reporter>>

\* lines 884-927: one iteration of the loop: task_graph.add_task of
\* ndr_plus_and_stitch for one watershed
MainAddTask ==
    /\ main_pc = "submit"
    /\ task' = [task EXCEPT
            ![<<scenario_id, watershed_id_work_list[watershed_index]>>] =
                "pending"]
    /\ watershed_index' = watershed_index + 1
    /\ main_pc' = IF watershed_index' > Len(watershed_id_work_list)
                  THEN "join_tasks" ELSE "submit"
    /\ UNCHANGED <<disk, run, args_watersheds,
                   ecoshard_path_map, ecoshard_index,
                   checked_path_set, invalid_value_task_list,
                   invalid_raster_list, scenario_index,
                   watershed_id_work_list, stitching,
                   faults, sqlite_call, scrub_call, id_call, reporter>>

\* lines 914-915: the raster paths add_task hands to ndr_plus_and_stitch
runner_raster_paths(sid) ==
    [lulc |-> ecoshard_path_map[SCENARIO_VARS[sid].lulc_id],
     precip |-> ecoshard_path_map[SCENARIO_VARS[sid].precip_id]]

\* the terminal marker put without task_graph.join()
MainPutMarkerWithoutJoin ==
    /\ main_pc = "join_tasks"
    /\ stitch_queue' = [stitch_queue EXCEPT ![scenario_id] =
                            Append(@, NonePayload)]
    /\ main_pc' = "join_stitch"
    /\ UNCHANGED <<disk, run, args_watersheds,
                   ecoshard_path_map, ecoshard_index,
                   checked_path_set, invalid_value_task_list,
                   invalid_raster_list, scenario_index,
                   watershed_id_work_list, watershed_index, task,
                   stitch_batch_size, stitcher, stitch_thread, stitch_calls,
                   status_calls, overview_calls,
                   faults, sqlite_call, scrub_call, id_call, reporter>>

\* lines 929-930: task_graph.join() returns when no task is left, then the
\* terminal marker is put
MainJoinTasks ==
    /\ main_pc = "join_tasks"
    /\ \A f \in Fids : task[<<scenario_id, f>>] \in {"none", "done"}
    /\ stitch_queue' = [stitch_queue EXCEPT ![scenario_id] =
                            Append(@, NonePayload)]
    /\ main_pc' = "join_stitch"
    /\ UNCHANGED <<disk, run, args_watersheds,
                   ecoshard_path_map, ecoshard_index,
                   checked_path_set, invalid_value_task_list,
                   invalid_raster_list, scenario_index,
                   watershed_id_work_list, watershed_index, task,
                   stitch_batch_size, stitcher, stitch_thread, stitch_calls,
                   status_calls, overview_calls,
                   faults, sqlite_call, scrub_call, id_call, reporter>>

\* the loop going on to the next scenario without stitch_worker_thread.join()
MainJoinStitchWithoutJoin ==
    /\ main_pc = "join_stitch"
    /\ IF scenario_index < Len(SCENARIOS)
       THEN scenario_index' = scenario_index + 1
                /\ main_pc' = "create_export"
       ELSE scenario_index' = scenario_index /\ main_pc' = "done"
    /\ UNCHANGED <<disk, run, args_watersheds,
                   ecoshard_path_map, ecoshard_index,
                   checked_path_set, invalid_value_task_list,
                   invalid_raster_list, watershed_id_work_list,
                   watershed_index, task, stitching,
                   faults, sqlite_call, scrub_call, id_call, reporter>>

\* line 933: stitch_worker_thread.join() returns when the thread has ended,
\* with or without an exception; then the next scenario, or 'ALL DONE!'
MainJoinStitch ==
    /\ main_pc = "join_stitch"
    /\ stitcher[scenario_id].pc \in {"done", "dead"}
    /\ IF scenario_index < Len(SCENARIOS)
       THEN scenario_index' = scenario_index + 1
                /\ main_pc' = "create_export"
       ELSE scenario_index' = scenario_index /\ main_pc' = "done"
    /\ UNCHANGED <<disk, run, args_watersheds,
                   ecoshard_path_map, ecoshard_index,
                   checked_path_set, invalid_value_task_list,
                   invalid_raster_list, watershed_id_work_list,
                   watershed_index, task, stitching,
                   faults, sqlite_call, scrub_call, id_call, reporter>>

\* the process is killed, or has ended, and the pipeline is started again:
\* what is on disk stays, everything in memory is lost
Restart ==
    /\ run < MaxRuns
    /\ run' = run + 1
    /\ args_watersheds' \in WatershedArgs
    /\ watershed_layer' \in Layers
    /\ main_pc' = "scrub"
    /\ ecoshard_path_map' = DownloadedPathMap
    /\ ecoshard_index' = 1
    /\ checked_path_set' = {}
    /\ invalid_value_task_list' = << >>
    /\ invalid_raster_list' = << >>
    /\ scenario_index' = 1
    /\ watershed_id_work_list' = << >>
    /\ watershed_index' = 1
    /\ task' = NoTasks
    /\ stitch_queue' = EmptyQueues
    /\ stitcher' = NoStitchers
    /\ stitch_thread' = IdleThreads
    /\ stitch_calls' = NoCalls
    /\ status_calls' = NoCalls
    /\ overview_calls' = NoOverviews
    /\ reporter' = NoReporter
    /\ UNCHANGED <<work_status, stitch_raster, workspace_dirs, unit_rasters,
                   ecoshard_raster, stitch_batch_size, faults, sqlite_call,
                   scrub_call, id_call>>

(***************************************************************************)
(* ndr_plus_and_stitch: the unit runner, one task per <<scenario,          *)
(* watershed>>.                                                            *)
(***************************************************************************)
\* local_export_raster_path and local_modified_load_raster_path of a unit
unit_raster_paths(u) == {<<u[1], u[2], k>> : k \in Kinds}

\* lines 527-544: ndr_plus returns having written its two target rasters
\* into the workspace
NdrPlusReturns(u) ==
    /\ task[u] = "pending"
    /\ task' = [task EXCEPT ![u] = "ran"]
    /\ workspace_dirs' = workspace_dirs \cup {u}
    /\ unit_rasters' = unit_rasters \cup unit_raster_paths(u)
    /\ UNCHANGED <<work_status, stitch_raster, ecoshard_raster,
                   watershed_layer, driver, stitching,
                   faults, sqlite_call, scrub_call, id_call, reporter>>

\* ndr_plus returns but has not written the raster of kind `missing`
NdrPlusLeavesNoRaster(u, missing) ==
    /\ task[u] = "pending"
    /\ faults < MaxFaults
    /\ faults' = faults + 1
    /\ UNCHANGED <<sqlite_call, scrub_call, id_call, reporter>>
    /\ task' = [task EXCEPT ![u] = "ran"]
    /\ workspace_dirs' = workspace_dirs \cup {u}
    /\ unit_rasters' =
            unit_rasters \cup (unit_raster_paths(u) \ {<<u[1], u[2], missing>>})
    /\ UNCHANGED <<work_status, stitch_raster, ecoshard_raster,
                   watershed_layer, driver, stitching>>

\* ndr_plus raises: control goes to the except clause
NdrPlusRaises(u) ==
    /\ task[u] = "pending"
    /\ faults < MaxFaults
    /\ faults' = faults + 1
    /\ UNCHANGED <<sqlite_call, scrub_call, id_call, reporter>>
    /\ task' = [task EXCEPT ![u] = "except"]
    /\ UNCHANGED <<disk, driver, stitching>>

\* the runner marking its unit complete itself
RunnerSetComplete(u) ==
    /\ task[u] = "ran"
    /\ work_status' = _set_work_status(work_status,
                            << <<COMPLETE_STATUS, u[1], u[2]>> >>)
    /\ task' = [task EXCEPT ![u] = "computed"]
    /\ UNCHANGED <<stitch_raster, workspace_dirs, unit_rasters,
                   ecoshard_raster, watershed_layer, driver, stitching,
                   faults, sqlite_call, scrub_call, id_call, reporter>>

\* lines 547-549: _set_work_status([(COMPUTED_STATUS, scenario_id,
\* watershed_id)])
RunnerSetComputed(u) ==
    /\ task[u] = "ran"
    /\ work_status' = _set_work_status(work_status,
                            << <<COMPUTED_STATUS, u[1], u[2]>> >>)
    /\ task' = [task EXCEPT ![u] = "computed"]
    /\ UNCHANGED <<stitch_raster, workspace_dirs, unit_rasters,
                   ecoshard_raster, watershed_layer, driver, stitching,
                   faults, sqlite_call, scrub_call, id_call, reporter>>

\* the put placed before the write of COMPUTED_STATUS
RunnerPutBeforeComputed(u) ==
    /\ task[u] \in {"ran", "computed"}
    /\ stitch_queue' = [stitch_queue EXCEPT ![u[1]] =
                            Append(@, StitchPayload(u[1], u[2]))]
    /\ task' = [task EXCEPT ![u] = "done"]
    /\ UNCHANGED <<disk, driver, stitch_batch_size, stitcher, stitch_thread,
                   stitch_calls, status_calls, overview_calls, faults,
                   sqlite_call, scrub_call, id_call, reporter>>

\* lines 550-552: stitch_queue.put of the payload
RunnerPut(u) ==
    /\ task[u] = "computed"
    /\ stitch_queue' = [stitch_queue EXCEPT ![u[1]] =
                            Append(@, StitchPayload(u[1], u[2]))]
    /\ task' = [task EXCEPT ![u] = "done"]
    /\ UNCHANGED <<disk, driver, stitch_batch_size, stitcher, stitch_thread,
                   stitch_calls, status_calls, overview_calls,
                   faults, sqlite_call, scrub_call, id_call, reporter>>

\* lines 550-553: stitch_queue.put raises (the manager of the queue is
\* gone): the call is inside the try block, control goes to the except
\* clause
RunnerPutRaises(u) ==
    /\ task[u] = "computed"
    /\ faults < MaxFaults
    /\ faults' = faults + 1
    /\ UNCHANGED <<sqlite_call, scrub_call, id_call, reporter>>
    /\ task' = [task EXCEPT ![u] = "put_except"]
    /\ UNCHANGED <<disk, driver, stitching>>

\* the except clause that writes COMPUTED_STATUS in place of the failure
RunnerRecordExceptionAsComputed(u) ==
    /\ task[u] \in {"except", "put_except"}
    /\ work_status' = _set_work_status(work_status,
                            << <<COMPUTED_STATUS, u[1], u[2]>> >>)
    /\ task' = [task EXCEPT ![u] = "done"]
    /\ UNCHANGED <<stitch_raster, workspace_dirs, unit_rasters,
                   ecoshard_raster, watershed_layer, driver, stitching,
                   faults, sqlite_call, scrub_call, id_call, reporter>>

\* lines 553-559: the except clause writes the failure into the status and
\* the runner returns
RunnerRecordException(u) ==
    /\ task[u] \in {"except", "put_except"}
    /\ work_status' = _set_work_status(work_status,
                            << <<failure_tag(task[u]), u[1], u[2]>> >>)
    /\ task' = [task EXCEPT ![u] = "done"]
    /\ UNCHANGED <<stitch_raster, workspace_dirs, unit_rasters,
                   ecoshard_raster, watershed_layer, driver, stitching,
                   faults, sqlite_call, scrub_call, id_call, reporter>>

(***************************************************************************)
(* stitch_worker: the aggregator thread of scenario s.                     *)
(***************************************************************************)
\* stop_max_attempt_number of the retrying.retry decorator of stitch_worker
STOP_MAX_ATTEMPT_NUMBER == 100

\* the raster list a stitch_rasters thread of the given kind is handed
raster_list_of(st, kind) ==
    IF kind = "export" THEN st.export_raster_list
    ELSE st.modified_load_raster_list

\* the watersheds whose rasters are in the first n entries of a raster list
watersheds_of(raster_list, n) == {raster_list[i][2] : i \in 1..n}

\* the existence test on the export raster only
missing_export_raster(payload) == payload[1] \notin unit_rasters

\* lines 401-407: one of the two paths of the payload does not exist
missing_raster(payload) ==
    \E path \in {payload[1], payload[2]} : path \notin unit_rasters

\* the flush test with <= in place of <
continue_past_batch(workspace_list, payload) ==
    Len(workspace_list) <= stitch_batch_size /\ payload # NonePayload

\* the test with `or not workspace_list`: a marker that finds the lists
\* empty starts no flush
continue_on_empty_marker(workspace_list, payload) ==
    /\ Len(workspace_list) < stitch_batch_size
    /\ (payload # NonePayload \/ workspace_list = << >>)

\* lines 409-410: the test that sends the loop back to stitch_queue.get
continue_accumulating(workspace_list, payload) ==
    Len(workspace_list) < stitch_batch_size /\ payload # NonePayload

\* lines 389-410: a payload is taken from the queue and, unless it is the
\* terminal marker, appended to the four lists; then its two rasters must
\* exist; then either the loop continues or the flush starts
StitchGet(s) ==
    LET st == stitcher[s]
        payload == Head(stitch_queue[s])
        got == IF payload = NonePayload THEN [st EXCEPT !.payload = payload]
               ELSE [st EXCEPT
                        !.payload = payload,
                        !.status_update_list =
                            Append(@, <<COMPLETE_STATUS, s, payload[5]>>),
                        !.export_raster_list = Append(@, payload[1]),
                        !.modified_load_raster_list = Append(@, payload[2]),
                        !.workspace_list = Append(@, payload[3])]
    IN  /\ st.pc = "get"
        /\ stitch_queue[s] # << >>
        /\ stitch_queue' = [stitch_queue EXCEPT ![s] = Tail(@)]
        /\ stitcher' = [stitcher EXCEPT ![s] = [got EXCEPT !.pc =
                IF payload # NonePayload /\ missing_raster(payload)
                THEN "raise"
                ELSE IF continue_accumulating(got.workspace_list, payload)
                THEN "get"
                ELSE "stitch"]]
        /\ UNCHANGED <<disk, driver, task, stitch_batch_size, stitch_thread,
                       stitch_calls, status_calls, overview_calls,
                       faults, sqlite_call, scrub_call, id_call, reporter>>

\* lines 412-427: the two stitch_rasters threads of a flush are started
StitchStartThreads(s) ==
    /\ stitcher[s].pc = "stitch"
    /\ stitch_thread' = [m \in Mosaics |->
                            IF m[1] = s THEN "running" ELSE stitch_thread[m]]
    /\ stitch_calls' = [stitch_calls EXCEPT ![s] =
                            Append(@, Len(stitcher[s].workspace_list))]
    /\ stitcher' = [stitcher EXCEPT ![s].pc = "join"]
    /\ UNCHANGED <<disk, driver, task, stitch_queue, stitch_batch_size,
                   status_calls, overview_calls,
                   faults, sqlite_call, scrub_call, id_call, reporter>>

\* pygeoprocessing.stitch_rasters of one thread stitches the first n rasters
\* of its list into the global mosaic and the thread ends
stitch_rasters(s, kind, n) ==
    /\ stitch_thread[<<s, kind>>] = "running"
    /\ stitch_raster' = [stitch_raster EXCEPT ![<<s, kind>>].merged =
            @ \cup watersheds_of(raster_list_of(stitcher[s], kind), n)]
    /\ stitch_thread' = [stitch_thread EXCEPT ![<<s, kind>>] = "finished"]
    /\ UNCHANGED <<work_status, workspace_dirs, unit_rasters, ecoshard_raster,
                   watershed_layer, driver, task, stitch_queue,
                   stitch_batch_size, stitcher, stitch_calls, status_calls,
                   overview_calls>>

\* the thread's target returns: every raster of the list is stitched
StitchRastersReturns(s, kind) ==
    /\ stitch_rasters(s, kind, Len(raster_list_of(stitcher[s], kind)))
    /\ UNCHANGED <<faults, sqlite_call, scrub_call, id_call, reporter>>

\* the thread's target raises after n rasters: the exception ends the thread
\* and goes no further (threading.Thread)
StitchRastersRaises(s, kind) ==
    /\ faults < MaxFaults
    /\ faults' = faults + 1
    /\ UNCHANGED <<sqlite_call, scrub_call, id_call, reporter>>
    /\ \E n \in 0..(Len(raster_list_of(stitcher[s], kind)) - 1) :
            stitch_rasters(s, kind, n)

\* a flush that goes on without joining its threads
StitchWithoutJoin(s) ==
    /\ stitcher[s].pc = "join"
    /\ stitcher' = [stitcher EXCEPT ![s].pc =
                        IF stitcher[s].remove_workspaces
                        THEN "rmtree" ELSE "set_status"]
    /\ UNCHANGED <<disk, driver, task, stitch_queue, stitch_batch_size,
                   stitch_thread, stitch_calls, status_calls, overview_calls,
                   faults, sqlite_call, scrub_call, id_call, reporter>>

\* lines 428-431: both threads are joined
StitchJoin(s) ==
    /\ stitcher[s].pc = "join"
    /\ \A k \in Kinds : stitch_thread[<<s, k>>] = "finished"
    /\ stitch_thread' = [m \in Mosaics |->
                            IF m[1] = s THEN "idle" ELSE stitch_thread[m]]
    /\ stitcher' = [stitcher EXCEPT ![s].pc =
                        IF stitcher[s].remove_workspaces
                        THEN "rmtree" ELSE "set_status"]
    /\ UNCHANGED <<disk, driver, task, stitch_queue, stitch_batch_size,
                   stitch_calls, status_calls, overview_calls,
                   faults, sqlite_call, scrub_call, id_call, reporter>>

\* lines 432-435: shutil.rmtree of every workspace of the batch
StitchRemoveWorkspaces(s) ==
    /\ stitcher[s].pc = "rmtree"
    /\ workspace_dirs' = workspace_dirs \ Range(stitcher[s].workspace_list)
    /\ unit_rasters' = {p \in unit_rasters :
                            <<p[1], p[2]>> \notin
                                Range(stitcher[s].workspace_list)}
    /\ stitcher' = [stitcher EXCEPT ![s].pc = "set_status"]
    /\ UNCHANGED <<work_status, stitch_raster, ecoshard_raster,
                   watershed_layer, driver, task, stitch_queue,
                   stitch_batch_size, stitch_thread, stitch_calls,
                   status_calls, overview_calls,
                   faults, sqlite_call, scrub_call, id_call, reporter>>

\* the end of a flush without `stitch_queue.put(None)`
StitchSetWorkStatusWithoutPut(s) ==
    LET st == stitcher[s]
    IN  /\ st.pc = "set_status"
        /\ work_status' = _set_work_status(work_status, st.status_update_list)
        /\ status_calls' = [status_calls EXCEPT ![s] =
                                Append(@, Len(st.status_update_list))]
        /\ stitcher' = [stitcher EXCEPT ![s] = [st EXCEPT
                !.export_raster_list = << >>,
                !.modified_load_raster_list = << >>,
                !.workspace_list = << >>,
                !.status_update_list = << >>,
                !.pc = IF st.payload = NonePayload THEN "overview" ELSE "get"]]
        /\ UNCHANGED <<stitch_raster, workspace_dirs, unit_rasters,
                       ecoshard_raster, watershed_layer, driver, task,
                       stitch_queue, stitch_batch_size, stitch_thread,
                       stitch_calls, overview_calls,
                       faults, sqlite_call, scrub_call, id_call, reporter>>

\* lines 437-449: the lists are emptied, the batch is marked complete with
\* one _set_work_status and, after the terminal marker, the marker is put
\* back and the loop is left
StitchSetWorkStatus(s) ==
    LET st == stitcher[s]
    IN  /\ st.pc = "set_status"
        /\ work_status' = _set_work_status(work_status, st.status_update_list)
        /\ status_calls' = [status_calls EXCEPT ![s] =
                                Append(@, Len(st.status_update_list))]
        /\ stitch_queue' = [stitch_queue EXCEPT ![s] =
                IF st.payload = NonePayload THEN Append(@, NonePayload) ELSE @]
        /\ stitcher' = [stitcher EXCEPT ![s] = [st EXCEPT
                !.export_raster_list = << >>,
                !.modified_load_raster_list = << >>,
                !.workspace_list = << >>,
                !.status_update_list = << >>,
                !.pc = IF st.payload = NonePayload THEN "overview" ELSE "get"]]
        /\ UNCHANGED <<stitch_raster, workspace_dirs, unit_rasters,
                       ecoshard_raster, watershed_layer, driver, task,
                       stitch_batch_size, stitch_thread, stitch_calls,
                       overview_calls,
                       faults, sqlite_call, scrub_call, id_call, reporter>>

\* the finalize pass placed after the joins of a flush as well
StitchOverviewAfterJoin(s) ==
    /\ stitcher[s].pc \in {"overview", "set_status"}
    /\ overview_calls' = [m \in Mosaics |->
            IF m[1] = s THEN overview_calls[m] + 1 ELSE overview_calls[m]]
    /\ stitcher' = [stitcher EXCEPT ![s].pc =
                        IF @ = "overview" THEN "done" ELSE @]
    /\ UNCHANGED <<disk, driver, task, stitch_queue, stitch_batch_size,
                   stitch_thread, stitch_calls, status_calls,
                   faults, sqlite_call, scrub_call, id_call, reporter>>

\* lines 450-476: upsample_compress_and_overview of both mosaics, joined
StitchOverview(s) ==
    /\ stitcher[s].pc = "overview"
    /\ overview_calls' = [m \in Mosaics |->
            IF m[1] = s THEN overview_calls[m] + 1 ELSE overview_calls[m]]
    /\ stitcher' = [stitcher EXCEPT ![s].pc = "done"]
    /\ UNCHANGED <<disk, driver, task, stitch_queue, stitch_batch_size,
                   stitch_thread, stitch_calls, status_calls,
                   faults, sqlite_call, scrub_call, id_call, reporter>>

\* lines 376 and 477-480: the exception is logged and raised again, and the
\* retrying.retry decorator calls stitch_worker again unless this was
\* attempt number stop_max_attempt_number
StitchRetry(s) ==
    LET st == stitcher[s]
    IN  /\ st.pc = "raise"
        /\ stitcher' = [stitcher EXCEPT ![s] =
                IF st.attempt_number < STOP_MAX_ATTEMPT_NUMBER
                THEN StitcherLocals("get", st.attempt_number + 1,
                                    st.remove_workspaces)
                ELSE [st EXCEPT !.pc = "dead"]]
        /\ UNCHANGED <<disk, driver, task, stitch_queue, stitch_batch_size,
                       stitch_thread, stitch_calls, status_calls,
                       overview_calls,
                       faults, sqlite_call, scrub_call, id_call, reporter>>

(***************************************************************************)
(* The pipeline.                                                           *)
(***************************************************************************)
Next ==
    \/ MainScrub
    \/ MainCheckEcoshard
    \/ MainValidationGate
    \/ MainSchedule
    \/ MainCreateEmptyRaster
    \/ MainStartStitchWorker
    \/ MainQuery
    \/ MainAddTask
    \/ MainJoinTasks
    \/ MainJoinStitch
    \/ Restart
    \/ \E u \in Units : NdrPlusReturns(u)
    \/ \E u \in Units, k \in Kinds : NdrPlusLeavesNoRaster(u, k)
    \/ \E u \in Units : NdrPlusRaises(u)
    \/ \E u \in Units : RunnerSetComputed(u)
    \/ \E u \in Units : RunnerPut(u)
    \/ \E u \in Units : RunnerPutRaises(u)
    \/ \E u \in Units : RunnerRecordException(u)
    \/ \E s \in ScenarioIds : StitchGet(s)
    \/ \E s \in ScenarioIds : StitchStartThreads(s)
    \/ \E s \in ScenarioIds, k \in Kinds : StitchRastersReturns(s, k)
    \/ \E s \in ScenarioIds, k \in Kinds : StitchRastersRaises(s, k)
    \/ \E s \in ScenarioIds : StitchJoin(s)
    \/ \E s \in ScenarioIds : StitchRemoveWorkspaces(s)
    \/ \E s \in ScenarioIds : StitchSetWorkStatus(s)
    \/ \E s \in ScenarioIds : StitchOverview(s)
    \/ \E s \in ScenarioIds : StitchRetry(s)

Spec == Init /\ [][Next]_vars

(***************************************************************************)
(* One run of the pipeline in which no merge, no store access and no file  *)
(* fails and the process is not killed: the main thread, every task of the *)
(* task graph and every stitch_worker thread keep being scheduled.  A      *)
(* runner may still see ndr_plus raise.                                     *)
(***************************************************************************)
MainLive ==
    \/ MainScrub
    \/ MainCheckEcoshard
    \/ MainValidationGate
    \/ MainSchedule
    \/ MainCreateEmptyRaster
    \/ MainStartStitchWorker
    \/ MainQuery
    \/ MainAddTask
    \/ MainJoinTasks
    \/ MainJoinStitch

RunnerLive(u) ==
    \/ NdrPlusReturns(u)
    \/ NdrPlusRaises(u)
    \/ RunnerSetComputed(u)
    \/ RunnerPut(u)
    \/ RunnerRecordException(u)

StitchLive(s) ==
    \/ StitchGet(s)
    \/ StitchStartThreads(s)
    \/ \E k \in Kinds : StitchRastersReturns(s, k)
    \/ StitchJoin(s)
    \/ StitchRemoveWorkspaces(s)
    \/ StitchSetWorkStatus(s)
    \/ StitchOverview(s)

NextLive ==
    \/ MainLive
    \/ \E u \in Units : RunnerLive(u)
    \/ \E s \in ScenarioIds : StitchLive(s)

SpecLive ==
    /\ Init
    /\ [][NextLive]_vars
    /\ WF_vars(MainLive)
    /\ \A u \in Units : WF_vars(RunnerLive(u))
    /\ \A s \in ScenarioIds : WF_vars(StitchLive(s))

(***************************************************************************)
(* The validator alone: main's validation pass over an input raster drawn  *)
(* from a bounded set of rasters.                                          *)
(***************************************************************************)
\* bounds: cells of a drawn raster, cells of one block of iterblocks
MaxCells == 3
BlockLen == 2

\* the blocks pygeoprocessing.iterblocks yields for a band holding `cells`
RECURSIVE iterblocks(_)
iterblocks(cells) ==
    IF Len(cells) <= BlockLen
    THEN (IF cells = << >> THEN << >> ELSE <<cells>>)
    ELSE <<SubSeq(cells, 1, BlockLen)>>
            \o iterblocks(SubSeq(cells, BlockLen + 1, Len(cells)))

\* 1.0, -9999.0, -9999.0001, -10004.0, 1e35 and nan
CellSamples ==
    { Fin(TICKS_PER_UNIT), NODATA, Fin(-9999 * TICKS_PER_UNIT - 1),
      Fin(-10004 * TICKS_PER_UNIT), Huge(1), NaN }

SeqsUpTo(S, n) == UNION {[1..m -> S] : m \in 0..n}

DetectRasters ==
    { [nodata |-> nodata, blocks |-> iterblocks(cells)] :
        nodata \in {NODATA, NoNodata}, cells \in SeqsUpTo(CellSamples, MaxCells) }

CleanRaster ==
    [nodata |-> NODATA, blocks |-> << <<Fin(TICKS_PER_UNIT), NODATA>> >>]

InitDetect ==
    /\ work_status = {}
    /\ stitch_raster = [m \in Mosaics |-> AbsentRaster]
    /\ workspace_dirs = {}
    /\ unit_rasters = {}
    /\ \E r \in DetectRasters :
            ecoshard_raster = [p \in RasterPaths |->
                                IF p = "precip.tif" THEN r ELSE CleanRaster]
    /\ watershed_layer \in Layers
    /\ run = 1
    /\ args_watersheds = << >>
    /\ main_pc = "scrub"
    /\ ecoshard_path_map = DownloadedPathMap
    /\ ecoshard_index = 1
    /\ checked_path_set = {}
    /\ invalid_value_task_list = << >>
    /\ invalid_raster_list = << >>
    /\ scenario_index = 1
    /\ watershed_id_work_list = << >>
    /\ watershed_index = 1
    /\ task = NoTasks
    /\ stitch_queue = EmptyQueues
    /\ stitch_batch_size = ScaledBatch
    /\ stitcher = NoStitchers
    /\ stitch_thread = IdleThreads
    /\ stitch_calls = NoCalls
    /\ status_calls = NoCalls
    /\ overview_calls = NoOverviews
    /\ faults = 0
    /\ sqlite_call = NoSqliteCall
    /\ scrub_call = NoScrubCall
    /\ id_call = NoIdCall
    /\ reporter = NoReporter

NextDetect ==
    \/ MainScrub
    \/ MainCheckEcoshard
    \/ MainValidationGate

SpecDetect == InitDetect /\ [][NextDetect]_vars

(***************************************************************************)
(* The aggregator alone: stitch_worker of the first scenario, fed the      *)
(* payloads of N computed units and then the terminal marker, with the     *)
(* batch length of the source.                                             *)
(***************************************************************************)
\* bound: how many payloads are fed
MaxFeed == 250

\* the literal of the flush test `len(workspace_list) < 100`
BATCH_SIZE == 100

FedScenario == SCENARIOS[1]

\* the payloads of watersheds 1..n, then the marker
fed_queue(n) ==
    [i \in 1..(n + 1) |->
        IF i <= n THEN StitchPayload(FedScenario, i) ELSE NonePayload]

\* the input rasters, all clean, with the scrubbed copies lines 749-761 wrote
ScrubbedCleanRasters ==
    [p \in RasterPaths
            \cup {scrub_path_of(DownloadedPathMap[id]) : id \in SCRUB_IDS} |->
        IF p \in RasterPaths THEN CleanRaster
        ELSE scrub_raster(CleanRaster, "absent", NoNodata, RTOL_INV).target]

InitBatch ==
    \E n \in 0..MaxFeed :
        /\ work_status = {Row(FedScenario, w, AREA_DEG_THRESHOLD + w,
                              COMPUTED_STATUS) : w \in 1..n}
        /\ stitch_raster = [m \in Mosaics |->
                IF m[1] = FedScenario THEN [exists |-> TRUE, merged |-> {}]
                ELSE AbsentRaster]
        /\ workspace_dirs = {<<FedScenario, w>> : w \in 1..n}
        /\ unit_rasters = {<<FedScenario, w, k>> : w \in 1..n, k \in Kinds}
        /\ ecoshard_raster = ScrubbedCleanRasters
        /\ watershed_layer = [w \in 1..n |-> AREA_DEG_THRESHOLD + w]
        /\ run = 1
        /\ args_watersheds = << >>
        /\ main_pc = "join_stitch"
        /\ ecoshard_path_map = path_map_after_scrub(DownloadedPathMap)
        /\ ecoshard_index = Len(ECOSHARD_ITEMS) + 1
        /\ checked_path_set = DOMAIN ScrubbedCleanRasters
        /\ invalid_value_task_list = << >>
        /\ invalid_raster_list = << >>
        /\ scenario_index = 1
        /\ watershed_id_work_list = [i \in 1..n |-> n + 1 - i]
        /\ watershed_index = n + 1
        /\ task = [u \in ScenarioIds \X (1..n) |->
                        IF u[1] = FedScenario THEN "done" ELSE "none"]
        /\ stitch_queue = [s \in ScenarioIds |->
                                IF s = FedScenario THEN fed_queue(n) ELSE << >>]
        /\ stitch_batch_size = BATCH_SIZE
        /\ stitcher = [s \in ScenarioIds |->
                IF s = FedScenario THEN StitcherLocals("get", 1, TRUE)
                ELSE StitcherLocals("unstarted", 1, TRUE)]
        /\ stitch_thread = IdleThreads
        /\ stitch_calls = NoCalls
        /\ status_calls = NoCalls
        /\ overview_calls = NoOverviews
        /\ faults = 0
        /\ sqlite_call = NoSqliteCall
        /\ scrub_call = NoScrubCall
        /\ id_call = NoIdCall
        /\ reporter = NoReporter

NextBatch ==
    \/ \E s \in ScenarioIds : StitchGet(s)
    \/ \E s \in ScenarioIds : StitchStartThreads(s)
    \/ \E s \in ScenarioIds, k \in Kinds : StitchRastersReturns(s, k)
    \/ \E s \in ScenarioIds : StitchJoin(s)
    \/ \E s \in ScenarioIds : StitchRemoveWorkspaces(s)
    \/ \E s \in ScenarioIds : StitchSetWorkStatus(s)
    \/ \E s \in ScenarioIds : StitchOverview(s)

SpecBatch == InitBatch /\ [][NextBatch]_vars

(***************************************************************************)
(* _execute_sqlite alone: one call through its decorator                   *)
(* retrying.retry(wait_exponential_multiplier=500,                         *)
(* wait_exponential_max=3200, stop_max_attempt_number=100). Every attempt  *)
(* either returns or raises, as the database decides.                      *)
(***************************************************************************)
\* the arguments of the decorator
WAIT_EXPONENTIAL_MULTIPLIER == 500
WAIT_EXPONENTIAL_MAX == 3200
SQLITE_STOP_MAX_ATTEMPT_NUMBER == 100

\* bound: rows the cursor of a successful attempt holds
MaxRows == 2

\* what an attempt can raise: the lock error, the ValueError of the argument
\* checks and anything else
SqliteExceptions == {"sqlite3.OperationalError", "ValueError", "Exception"}

\* lines 133-167: the values of mode, execute and fetch the function knows;
\* fetch=None is "None"
SQLITE_MODES == {"read_only", "modify"}
SQLITE_EXECUTES == {"execute", "script", "executemany"}
SQLITE_FETCHES == {"None", "all", "one"}

\* the arguments a call is made with: the known values and one unknown value
\* of each
SqliteModeArgs == {"read_only", "modify", "read_write"}
SqliteExecuteArgs == {"execute", "many"}
SqliteFetchArgs == {"None", "all", "one", "first"}

\* the call in 'modify' mode is INSERT OR IGNORE INTO work_status
\* VALUES(?, ?, ?, ?) with this argument_list; the call in 'read_only' mode
\* is a SELECT
SqliteArgumentList ==
    <<SCENARIOS[1], 0, AREA_DEG_THRESHOLD + 1, SCHEDULED_STATUS>>

\* lines 133-150: the store once the statement has been executed on the
\* connection and the connection committed
store_after_statement(table, mode) ==
    IF mode = "modify" THEN insert_or_ignore(table, <<SqliteArgumentList>>)
    ELSE table

\* lines 133-161: the argument check that raises ValueError first, if any
sqlite_value_error(call) ==
    IF call.mode \notin SQLITE_MODES THEN "mode"
    ELSE IF call.execute \notin SQLITE_EXECUTES THEN "execute"
    ELSE IF call.fetch \notin SQLITE_FETCHES THEN "fetch"
    ELSE "None"

\* lines 141-161: the statement has been executed when the ValueError of the
\* fetch check is raised
statement_run_before_value_error(call) ==
    sqlite_value_error(call) = "fetch"

\* multiplier * 2 ** n, where the doubling is not carried further once the
\* product is past wait_exponential_max, since it is then cut to the maximum
\* whatever n is (Python integers are unbounded)
RECURSIVE times_pow2(_, _)
times_pow2(result, n) ==
    IF n = 0 \/ result > WAIT_EXPONENTIAL_MAX THEN result
    ELSE times_pow2(2 * result, n - 1)

\* retrying's exponential_sleep: multiplier * 2 ** previous_attempt_number,
\* cut to the maximum
exponential_sleep(previous_attempt_number) ==
    LET result == times_pow2(WAIT_EXPONENTIAL_MULTIPLIER,
                             previous_attempt_number)
    IN  IF result > WAIT_EXPONENTIAL_MAX THEN WAIT_EXPONENTIAL_MAX
        ELSE result

\* a stop function that never stops
never_stop(previous_attempt_number) == FALSE

\* retrying's stop_after_attempt
stop_after_attempt(previous_attempt_number) ==
    previous_attempt_number >= SQLITE_STOP_MAX_ATTEMPT_NUMBER

\* lines 153-167: what a successful attempt returns: None without fetch,
\* list(fetchall()), or list(fetchone()) (None if the cursor has no row);
\* None is the empty tuple, a list is <<"list", its elements>>
fetch_result(fetch, rows) ==
    IF fetch = "all" THEN <<"list", rows>>
    ELSE IF fetch = "one" /\ rows # << >> THEN <<"list", <<rows[1]>> >>
    ELSE << >>

\* lines 131-167: the attempt runs the statement, commits, closes the
\* connection and returns
SqliteAttemptReturns ==
    /\ sqlite_call.pc = "attempt"
    /\ sqlite_value_error(sqlite_call) = "None"
    /\ work_status' = store_after_statement(work_status, sqlite_call.mode)
    /\ sqlite_call' = [sqlite_call EXCEPT
            !.pc = "returned",
            !.result = fetch_result(sqlite_call.fetch, sqlite_call.rows),
            !.connection = "closed"]
    /\ UNCHANGED <<stitch_raster, workspace_dirs, unit_rasters,
                   ecoshard_raster, watershed_layer, driver, task, stitching,
                   faults, scrub_call, id_call, reporter>>

\* lines 131-185: the attempt raises, the exception is logged and raised
\* again into the decorator; the finally clause commits and closes the
\* connection if there is one.  ValueError is raised by the argument checks
\* and by nothing else; an unknown mode raises it before anything can fail;
\* any other exception is raised by connect or by the statement, whose
\* effect is then not in the store
SqliteAttemptRaises(e) ==
    /\ sqlite_call.pc = "attempt"
    /\ (e = "ValueError") => sqlite_value_error(sqlite_call) # "None"
    /\ (sqlite_value_error(sqlite_call) = "mode") => e = "ValueError"
    /\ work_status' =
            IF e = "ValueError" /\ statement_run_before_value_error(sqlite_call)
            THEN store_after_statement(work_status, sqlite_call.mode)
            ELSE work_status
    /\ sqlite_call' = [sqlite_call EXCEPT
            !.pc = "rejected", !.exception = e,
            !.connection = IF sqlite_value_error(sqlite_call) = "mode"
                           THEN "None" ELSE "closed"]
    /\ UNCHANGED <<stitch_raster, workspace_dirs, unit_rasters,
                   ecoshard_raster, watershed_layer, driver, task, stitching,
                   faults, scrub_call, id_call, reporter>>

\* the decorator after a failed attempt that was not the last: it sleeps and
\* calls the function again
SqliteSleepAndRetry ==
    /\ sqlite_call.pc = "rejected"
    /\ ~stop_after_attempt(sqlite_call.attempt_number)
    /\ sqlite_call' = [sqlite_call EXCEPT
            !.pc = "attempt",
            !.sleep = exponential_sleep(sqlite_call.attempt_number),
            !.attempt_number = @ + 1,
            !.exception = ""]
    /\ UNCHANGED <<disk, driver, task, stitching, faults, scrub_call, id_call,
                   reporter>>

\* the decorator after the last attempt failed: the exception of the attempt
\* is raised to the caller
SqliteStop ==
    /\ sqlite_call.pc = "rejected"
    /\ stop_after_attempt(sqlite_call.attempt_number)
    /\ sqlite_call' = [sqlite_call EXCEPT !.pc = "raised"]
    /\ UNCHANGED <<disk, driver, task, stitching, faults, scrub_call, id_call,
                   reporter>>

SqliteRows == UNION {[1..m -> {"w1", "w2"}] : m \in 0..MaxRows}

InitSqlite ==
    /\ work_status = {}
    /\ stitch_raster = [m \in Mosaics |-> AbsentRaster]
    /\ workspace_dirs = {}
    /\ unit_rasters = {}
    /\ ecoshard_raster = [p \in RasterPaths |-> CleanRaster]
    /\ watershed_layer \in Layers
    /\ run = 1
    /\ args_watersheds = << >>
    /\ main_pc = "scrub"
    /\ ecoshard_path_map = DownloadedPathMap
    /\ ecoshard_index = 1
    /\ checked_path_set = {}
    /\ invalid_value_task_list = << >>
    /\ invalid_raster_list = << >>
    /\ scenario_index = 1
    /\ watershed_id_work_list = << >>
    /\ watershed_index = 1
    /\ task = NoTasks
    /\ stitch_queue = EmptyQueues
    /\ stitch_batch_size = ScaledBatch
    /\ stitcher = NoStitchers
    /\ stitch_thread = IdleThreads
    /\ stitch_calls = NoCalls
    /\ status_calls = NoCalls
    /\ overview_calls = NoOverviews
    /\ faults = 0
    /\ scrub_call = NoScrubCall
    /\ id_call = NoIdCall
    /\ reporter = NoReporter
    /\ \E mode \in SqliteModeArgs, execute \in SqliteExecuteArgs,
          fetch \in SqliteFetchArgs, rows \in SqliteRows :
            /\ mode # "read_only" => rows = << >>
            /\ sqlite_call = [NoSqliteCall EXCEPT
                    !.pc = "attempt", !.attempt_number = 1,
                    !.mode = mode, !.execute = execute,
                    !.fetch = fetch, !.rows = rows]

NextSqlite ==
    \/ SqliteAttemptReturns
    \/ \E e \in SqliteExceptions : SqliteAttemptRaises(e)
    \/ SqliteSleepAndRetry
    \/ SqliteStop

\* the call runs on: an attempt ends and a sleep of at most 3.2 s ends
SpecSqlite == InitSqlite /\ [][NextSqlite]_vars /\ WF_vars(NextSqlite)

(***************************************************************************)
(* The progress reporter: the thread of _report_watershed_count beside the *)
(* aggregator of the first scenario, which is fed the payloads of N        *)
(* computed units and the terminal marker, and beside main, which joins    *)
(* the aggregator.  The clock is in seconds; a sleep lasts at least        *)
(* sleep_time.                                                             *)
(***************************************************************************)
\* sleep_time = 15.0
SLEEP_TIME == 15

\* bounds: units fed, polls of the reporter, and seconds a poll may take
\* beyond sleep_time
MaxReportFeed == 3
MaxPolls == 2
MaxExtra == 1

\* the default of _execute_sqlite's argument `mode`, which the reporter's
\* calls leave out
REPORT_MODE == "read_only"

\* SELECT count(1) FROM work_status WHERE status!=?
count_to_process(table, status) ==
    Cardinality({r \in table : r.status # status})

\* time.time() after time.sleep(sleep_time) and the query
time_after_sleep(now, extra) == now + SLEEP_TIME + extra

\* watersheds_processed_so_far / seconds_so_far, as a fraction
n_processed_per_sec(processed, seconds) == [num |-> processed, den |-> seconds]

\* seconds_left = 99999999999
SECONDS_LEFT_UNBOUNDED == [k |-> "99999999999", num |-> 0, den |-> 1]

\* the division without the test `if n_processed_per_sec > 0`
seconds_left_always_divided(current_remaining, rate) ==
    [k |-> "quotient", num |-> current_remaining * rate.den,
     den |-> rate.num]

\* lines 648-651: current_remaining_to_process / n_processed_per_sec if the
\* rate is positive, else the literal
seconds_left_of(current_remaining, rate) ==
    IF rate.num * rate.den > 0
    THEN [k |-> "quotient", num |-> current_remaining * rate.den,
          den |-> rate.num]
    ELSE SECONDS_LEFT_UNBOUNDED

\* lines 629-635: start_time is read and the first count is fetched
ReportStart ==
    /\ reporter.pc = "start"
    /\ reporter' = [reporter EXCEPT
            !.pc = "sleep", !.mode = REPORT_MODE,
            !.start_time = reporter.now,
            !.original_watershed_to_process_count =
                count_to_process(work_status, COMPLETE_STATUS)]
    /\ UNCHANGED <<disk, driver, task, stitching, faults, sqlite_call,
                   scrub_call, id_call>>

\* lines 637-664: one pass of `while True`: sleep, count, rate, time left,
\* log; a division by zero raises ZeroDivisionError, which the except
\* clause logs and re-raises: the thread ends
ReportPoll ==
    /\ reporter.pc = "sleep"
    /\ reporter.polls < MaxPolls
    /\ \E extra \in 0..MaxExtra :
        LET now == time_after_sleep(reporter.now, extra)
            current_remaining == count_to_process(work_status, COMPLETE_STATUS)
            processed ==
                reporter.original_watershed_to_process_count
                    - current_remaining
            seconds_so_far == now - reporter.start_time
            rate == n_processed_per_sec(processed, seconds_so_far)
            seconds_left == seconds_left_of(current_remaining, rate)
            polled == [reporter EXCEPT
                        !.mode = REPORT_MODE, !.now = now,
                        !.polls = @ + 1,
                        !.current_remaining_to_process = current_remaining,
                        !.processed_so_far = processed,
                        !.seconds_so_far = seconds_so_far]
        IN  reporter' =
                IF seconds_so_far = 0
                THEN [polled EXCEPT !.pc = "dead",
                                    !.exception = "ZeroDivisionError"]
                ELSE IF seconds_left.den = 0
                THEN [polled EXCEPT !.pc = "dead",
                                    !.exception = "ZeroDivisionError"]
                ELSE [polled EXCEPT !.seconds_left = seconds_left]
    /\ UNCHANGED <<disk, driver, task, stitching, faults, sqlite_call,
                   scrub_call, id_call>>

\* the exception of the reporter raised in main's thread: main ends with it
ReportQueryRaisesInMain ==
    /\ reporter.pc \in {"start", "sleep"}
    /\ reporter' = [reporter EXCEPT
            !.pc = "dead", !.mode = REPORT_MODE,
            !.exception = "OperationalError"]
    /\ main_pc' = "raised"
    /\ UNCHANGED <<disk, run, args_watersheds, ecoshard_path_map,
                   ecoshard_index, checked_path_set, invalid_value_task_list,
                   invalid_raster_list, scenario_index,
                   watershed_id_work_list, watershed_index, task, stitching,
                   faults, sqlite_call, scrub_call, id_call>>

\* lines 631-633, 638-640, 666-668: _execute_sqlite raises when its retries
\* are used up; the except clause logs and re-raises, and the exception
\* ends the thread it was raised in, the reporter's
ReportQueryRaises ==
    /\ reporter.pc \in {"start", "sleep"}
    /\ reporter' = [reporter EXCEPT
            !.pc = "dead", !.mode = REPORT_MODE,
            !.exception = "OperationalError"]
    /\ UNCHANGED <<disk, driver, task, stitching, faults, sqlite_call,
                   scrub_call, id_call>>

\* lines 825-829 have started the thread; the rows of the first scenario
\* are computed and queued, those of the second are scheduled
InitReport ==
    \E n \in 0..MaxReportFeed :
        /\ work_status =
                {Row(FedScenario, w, AREA_DEG_THRESHOLD + w, COMPUTED_STATUS) :
                    w \in 1..n}
                \cup {Row(SCENARIOS[2], w, AREA_DEG_THRESHOLD + w,
                          SCHEDULED_STATUS) : w \in 1..n}
        /\ stitch_raster = [m \in Mosaics |->
                IF m[1] = FedScenario THEN [exists |-> TRUE, merged |-> {}]
                ELSE AbsentRaster]
        /\ workspace_dirs = {<<FedScenario, w>> : w \in 1..n}
        /\ unit_rasters = {<<FedScenario, w, k>> : w \in 1..n, k \in Kinds}
        /\ ecoshard_raster = ScrubbedCleanRasters
        /\ watershed_layer = [f \in Fids |-> AREA_DEG_THRESHOLD + f]
        /\ run = 1
        /\ args_watersheds = << >>
        /\ main_pc = "join_stitch"
        /\ ecoshard_path_map = path_map_after_scrub(DownloadedPathMap)
        /\ ecoshard_index = Len(ECOSHARD_ITEMS) + 1
        /\ checked_path_set = DOMAIN ScrubbedCleanRasters
        /\ invalid_value_task_list = << >>
        /\ invalid_raster_list = << >>
        /\ scenario_index = 1
        /\ watershed_id_work_list = [i \in 1..n |-> n + 1 - i]
        /\ watershed_index = n + 1
        /\ task = [u \in Units |->
                        IF u[1] = FedScenario /\ u[2] \in 1..n
                        THEN "done" ELSE "none"]
        /\ stitch_queue = [s \in ScenarioIds |->
                                IF s = FedScenario THEN fed_queue(n) ELSE << >>]
        /\ stitch_batch_size = ScaledBatch
        /\ stitcher = [s \in ScenarioIds |->
                IF s = FedScenario THEN StitcherLocals("get", 1, TRUE)
                ELSE StitcherLocals("unstarted", 1, TRUE)]
        /\ stitch_thread = IdleThreads
        /\ stitch_calls = NoCalls
        /\ status_calls = NoCalls
        /\ overview_calls = NoOverviews
        /\ faults = 0
        /\ sqlite_call = NoSqliteCall
        /\ scrub_call = NoScrubCall
        /\ id_call = NoIdCall
        /\ reporter = [NoReporter EXCEPT !.pc = "start"]

\* the aggregator and main
NextAggregate ==
    \/ \E s \in ScenarioIds : StitchGet(s)
    \/ \E s \in ScenarioIds : StitchStartThreads(s)
    \/ \E s \in ScenarioIds, k \in Kinds : StitchRastersReturns(s, k)
    \/ \E s \in ScenarioIds : StitchJoin(s)
    \/ \E s \in ScenarioIds : StitchRemoveWorkspaces(s)
    \/ \E s \in ScenarioIds : StitchSetWorkStatus(s)
    \/ \E s \in ScenarioIds : StitchOverview(s)
    \/ MainJoinStitch

NextReport ==
    \/ NextAggregate
    \/ ReportStart
    \/ ReportPoll
    \/ ReportQueryRaises

\* the threads of the aggregator and of main run on whatever the reporter
\* does
SpecReport == InitReport /\ [][NextReport]_vars /\ WF_vars(NextAggregate)

(***************************************************************************)
(* scrub_raster alone: one call, over every base raster of the validator   *)
(* inputs, every state of the target path and a target_nodata that is      *)
(* None, the nodata value of the base or another value.                    *)
(***************************************************************************)
\* the values of the argument target_nodata: None, -9999.0 and 0.0
TargetNodataArgs == {NoNodata, NODATA, Fin(0)}

\* the base rasters of the calls: those of the validator, and the same cells
\* in a band whose nodata value is nan
ScrubRasters ==
    DetectRasters \cup
        { [nodata |-> NaN, blocks |-> iterblocks(cells)] :
            cells \in SeqsUpTo(CellSamples, MaxCells) }

\* what the target path holds before the call
target_before_call(base_raster, target_is) ==
    IF target_is = "absent" THEN NoRaster
    ELSE IF target_is = "base file" THEN base_raster
    ELSE CleanRaster

\* the call as scrub_raster is entered
ScrubCalled(base_raster, target_is, target_nodata) ==
    [NoScrubCall EXCEPT
        !.pc = "called", !.base_raster = base_raster,
        !.target_is = target_is, !.target_nodata = target_nodata,
        !.target_before = target_before_call(base_raster, target_is),
        !.target = target_before_call(base_raster, target_is)]

\* the outcome of the call that is followed
scrub_call_outcome ==
    scrub_raster(scrub_call.base_raster, scrub_call.target_is,
                 scrub_call.target_nodata, RTOL_INV)

\* lines 294-309: one of the three ValueErrors is raised; nothing was
\* opened for writing
ScrubRasterRaises ==
    /\ scrub_call.pc = "called"
    /\ scrub_call_outcome.exception # ""
    /\ scrub_call' = [scrub_call EXCEPT
            !.pc = "raised", !.exception = scrub_call_outcome.exception]
    /\ UNCHANGED <<disk, driver, task, stitching, faults, sqlite_call,
                   id_call, reporter>>

\* lines 310-352: raster_calculator writes the target with _scrub_op, then
\* the counters are logged, or "is CLEAN"
ScrubRasterReturns ==
    /\ scrub_call.pc = "called"
    /\ scrub_call_outcome.exception = ""
    /\ scrub_call' = [scrub_call EXCEPT
            !.pc = "returned",
            !.target = scrub_call_outcome.target,
            !.non_finite_count = scrub_call_outcome.non_finite_count,
            !.large_value_count = scrub_call_outcome.large_value_count,
            !.close_to_nodata = scrub_call_outcome.close_to_nodata,
            !.log = scrub_call_outcome.log]
    /\ UNCHANGED <<disk, driver, task, stitching, faults, sqlite_call,
                   id_call, reporter>>

InitScrub ==
    /\ work_status = {}
    /\ stitch_raster = [m \in Mosaics |-> AbsentRaster]
    /\ workspace_dirs = {}
    /\ unit_rasters = {}
    /\ ecoshard_raster = [p \in RasterPaths |-> CleanRaster]
    /\ watershed_layer \in Layers
    /\ run = 1
    /\ args_watersheds = << >>
    /\ main_pc = "scrub"
    /\ ecoshard_path_map = DownloadedPathMap
    /\ ecoshard_index = 1
    /\ checked_path_set = {}
    /\ invalid_value_task_list = << >>
    /\ invalid_raster_list = << >>
    /\ scenario_index = 1
    /\ watershed_id_work_list = << >>
    /\ watershed_index = 1
    /\ task = NoTasks
    /\ stitch_queue = EmptyQueues
    /\ stitch_batch_size = ScaledBatch
    /\ stitcher = NoStitchers
    /\ stitch_thread = IdleThreads
    /\ stitch_calls = NoCalls
    /\ status_calls = NoCalls
    /\ overview_calls = NoOverviews
    /\ faults = 0
    /\ sqlite_call = NoSqliteCall
    /\ reporter = NoReporter
    /\ \E base_raster \in ScrubRasters,
          target_is \in {"absent", "other file", "base file"},
          target_nodata \in TargetNodataArgs :
            scrub_call = ScrubCalled(base_raster, target_is, target_nodata)
    /\ id_call = NoIdCall

NextScrub ==
    \/ ScrubRasterRaises
    \/ ScrubRasterReturns

SpecScrub == InitScrub /\ [][NextScrub]_vars

(***************************************************************************)
(* Watershed ids alone: _create_watershed_id on the path of a vector file  *)
(* of the watershed directory and a feature index, then                    *)
(* _split_watershed_id on the id it made.  A str is the sequence of its    *)
(* characters.                                                             *)
(***************************************************************************)
\* bounds: characters of a file name, and the largest feature index
MaxNameLen == 3
MaxIdFid == 12

\* string.digits
DIGITS == <<"0", "1", "2", "3", "4", "5", "6", "7", "8", "9">>

IsDigit(c) == c \in Range(DIGITS)

DigitValue(c) == (CHOOSE i \in 1..Len(DIGITS) : DIGITS[i] = c) - 1

\* the {watershed_fid} of the f-string: str() of a non-negative int
RECURSIVE str(_)
str(n) ==
    IF n < Len(DIGITS) THEN <<DIGITS[n + 1]>>
    ELSE str(n \div Len(DIGITS)) \o <<DIGITS[(n % Len(DIGITS)) + 1]>>

\* int() of a str of decimal digits that is not empty
RECURSIVE int(_)
int(s) ==
    IF s = << >> THEN 0
    ELSE Len(DIGITS) * int(SubSeq(s, 1, Len(s) - 1)) + DigitValue(s[Len(s)])

\* str.rfind, counted from 1, 0 if the character is not there
rfind(s, c) ==
    LET found == {i \in 1..Len(s) : s[i] = c}
    IN  IF found = {} THEN 0 ELSE CHOOSE i \in found : \A j \in found : j <= i

\* os.path.splitext(p)[0]: p up to its last dot, if that dot is behind the
\* last separator and behind a character of the file name that is no dot
splitext_root(p) ==
    LET sepIndex == rfind(p, "/")
        dotIndex == rfind(p, ".")
    IN  IF /\ dotIndex > sepIndex
           /\ \E i \in (sepIndex + 1)..(dotIndex - 1) : p[i] # "."
        THEN SubSeq(p, 1, dotIndex - 1)
        ELSE p

\* os.path.basename
os_path_basename(p) == SubSeq(p, rfind(p, "/") + 1, Len(p))

\* lines 483-486
_create_watershed_id(watershed_path, watershed_fid) ==
    LET watershed_basename == os_path_basename(splitext_root(watershed_path))
    IN  <<watershed_basename,
          watershed_basename \o <<"_">> \o str(watershed_fid)>>

\* the id cut at its first underscore, as str.partition('_') does
_split_watershed_id_at_first_underscore(watershed_id) ==
    LET cuts == {i \in 1..Len(watershed_id) : watershed_id[i] = "_"}
        cut == CHOOSE i \in cuts : \A j \in cuts : i <= j
        fid == SubSeq(watershed_id, cut + 1, Len(watershed_id))
    IN  IF cuts = {}
        THEN [exception |-> "AttributeError", basename |-> << >>, fid |-> 0]
        ELSE IF fid = << >> \/ \E i \in 1..Len(fid) : ~IsDigit(fid[i])
        THEN [exception |-> "ValueError", basename |-> << >>, fid |-> 0]
        ELSE [exception |-> "",
              basename |-> SubSeq(watershed_id, 1, cut - 1),
              fid |-> int(fid)]

\* lines 489-492: re.match(r'^(.*)_(\d*)$', watershed_id): the greedy (.*)
\* ends at the last underscore behind which there are only digits; without
\* such an underscore the match is None and .groups() raises; int('')
\* raises
_split_watershed_id(watershed_id) ==
    LET cuts == {i \in 1..Len(watershed_id) :
                    /\ watershed_id[i] = "_"
                    /\ \A j \in (i + 1)..Len(watershed_id) :
                            IsDigit(watershed_id[j])}
        cut == CHOOSE i \in cuts : \A j \in cuts : j <= i
        fid == SubSeq(watershed_id, cut + 1, Len(watershed_id))
    IN  IF cuts = {}
        THEN [exception |-> "AttributeError", basename |-> << >>, fid |-> 0]
        ELSE IF fid = << >>
        THEN [exception |-> "ValueError", basename |-> << >>, fid |-> 0]
        ELSE [exception |-> "",
              basename |-> SubSeq(watershed_id, 1, cut - 1),
              fid |-> int(fid)]

\* the characters a file name is made of here: a letter, the underscore and
\* a digit
NameChars == {"w", "_", "7"}

\* the names glob's *.shp matches
WatershedNames == UNION {[1..m -> NameChars] : m \in 1..MaxNameLen}

\* os.path.join(watershed_dir, f'{name}.shp')
WatershedDir == <<"w", ".", "d">>
watershed_path_of(name) ==
    WatershedDir \o <<"/">> \o name \o <<".", "s", "h", "p">>

\* lines 799-801: _create_watershed_id(watershed_path, GetFID())
IdCreate ==
    /\ id_call.pc = "called"
    /\ LET created == _create_watershed_id(id_call.watershed_path,
                                            id_call.watershed_fid)
       IN  id_call' = [id_call EXCEPT
                !.pc = "created",
                !.watershed_basename = created[1],
                !.watershed_id = created[2]]
    /\ UNCHANGED <<disk, driver, task, stitching, faults, sqlite_call,
                   scrub_call, reporter>>

\* lines 892-893: _split_watershed_id(watershed_id) returns or raises
IdSplit ==
    /\ id_call.pc = "created"
    /\ LET split == _split_watershed_id(id_call.watershed_id)
       IN  id_call' = [id_call EXCEPT
                !.pc = IF split.exception = "" THEN "split" ELSE "raised",
                !.basename = split.basename,
                !.fid = split.fid,
                !.exception = split.exception]
    /\ UNCHANGED <<disk, driver, task, stitching, faults, sqlite_call,
                   scrub_call, reporter>>

InitId ==
    /\ work_status = {}
    /\ stitch_raster = [m \in Mosaics |-> AbsentRaster]
    /\ workspace_dirs = {}
    /\ unit_rasters = {}
    /\ ecoshard_raster = [p \in RasterPaths |-> CleanRaster]
    /\ watershed_layer = CHOOSE layer \in Layers : TRUE
    /\ run = 1
    /\ args_watersheds = << >>
    /\ main_pc = "scrub"
    /\ ecoshard_path_map = DownloadedPathMap
    /\ ecoshard_index = 1
    /\ checked_path_set = {}
    /\ invalid_value_task_list = << >>
    /\ invalid_raster_list = << >>
    /\ scenario_index = 1
    /\ watershed_id_work_list = << >>
    /\ watershed_index = 1
    /\ task = NoTasks
    /\ stitch_queue = EmptyQueues
    /\ stitch_batch_size = ScaledBatch
    /\ stitcher = NoStitchers
    /\ stitch_thread = IdleThreads
    /\ stitch_calls = NoCalls
    /\ status_calls = NoCalls
    /\ overview_calls = NoOverviews
    /\ faults = 0
    /\ sqlite_call = NoSqliteCall
    /\ scrub_call = NoScrubCall
    /\ reporter = NoReporter
    /\ \E name \in WatershedNames, fid \in 0..MaxIdFid :
            id_call = [NoIdCall EXCEPT
                !.pc = "called",
                !.watershed_path = watershed_path_of(name),
                !.watershed_fid = fid]

NextId ==
    \/ IdCreate
    \/ IdSplit

SpecId == InitId /\ [][NextId]_vars

(***************************************************************************)
(* Properties.                                                             *)
(***************************************************************************)
\* both rasters of the unit are in the two global mosaics of its scenario
Merged(sid, wid) == \A k \in Kinds : wid \in stitch_raster[<<sid, k>>].merged

\* C1: in every reachable state, whether or not the stitch_rasters calls of
\* a flush succeed, a row of work_status has status complete only if the
\* unit's export raster and modified-load raster have both been merged into
\* the two global mosaics of its scenario.
C1_CompleteOnlyIfMerged ==
    \A r \in work_status :
        r.status = COMPLETE_STATUS => Merged(r.scenario_id, r.watershed_id)

\* C2: whatever state a killed process leaves behind, the remaining-work
\* query of a fresh run returns every unit of the table whose outputs are
\* not merged into the mosaics: no unit with unmerged outputs is skipped.
C2_UnmergedUnitsAreSelectedOnResume ==
    \A s \in ScenarioIds : \A r \in work_status :
        (r.scenario_id = s /\ ~Merged(s, r.watershed_id))
            => r.watershed_id \in Range(watersheds_to_process_query(
                                        work_status, s, COMPLETE_STATUS))

\* how many rows the table holds for a key
RowCount(table, sid, wid) ==
    Cardinality({r \in table : r.scenario_id = sid /\ r.watershed_id = wid})

\* C3: a scheduling statement (INSERT OR IGNORE) leaves every row that was
\* in the table as it was, status and first-inserted area included, whatever
\* the area it is given for that key, and leaves exactly one row per key.
C3_SchedulingIsIdempotent ==
    [][MainSchedule =>
        /\ \A r \in work_status : r \in work_status'
        /\ \A r \in work_status' :
              RowCount(work_status', r.scenario_id, r.watershed_id) = 1]_vars

\* C3 witness: the scheduling pass of a second run has ended over a row that
\* is complete and was first inserted with another area than the vector
\* gives now
C3_Witness ==
    /\ run = 2 /\ main_pc = "create_export" /\ scenario_index = 1
    /\ \E r \in work_status :
          /\ r.status = COMPLETE_STATUS
          /\ r.watershed_area # watershed_layer[r.watershed_id]

\* main has just made its work list for the scenario and submitted nothing
WorkListJustMade ==
    main_pc \in {"submit", "join_tasks"} /\ watershed_index = 1

\* C4: without --watersheds, the work list main makes for a scenario holds
\* exactly the rows of that scenario whose status is not complete: computed,
\* scheduled and failed units are all selected, complete ones are not.
C4_RemainingWorkIsNotComplete ==
    (WorkListJustMade /\ args_watersheds = << >>) =>
        /\ \A r \in work_status :
              r.scenario_id = scenario_id =>
                (r.watershed_id \in Range(watershed_id_work_list)
                    <=> r.status \in {SCHEDULED_STATUS, COMPUTED_STATUS,
                                      ExceptionStatus, PutExceptionStatus})
        /\ \A i \in 1..Len(watershed_id_work_list) :
              /\ HasRow(work_status, scenario_id, watershed_id_work_list[i])
              /\ \A j \in 1..Len(watershed_id_work_list) :
                    watershed_id_work_list[i] = watershed_id_work_list[j]
                        => i = j

\* C4 witness: on a restart, the list holds a computed unit and leaves out a
\* complete one
C4_Witness ==
    /\ run = 2 /\ WorkListJustMade /\ args_watersheds = << >>
    /\ \E r \in work_status :
          /\ r.scenario_id = scenario_id /\ r.status = COMPUTED_STATUS
          /\ r.watershed_id \in Range(watershed_id_work_list)
    /\ \E r \in work_status :
          /\ r.scenario_id = scenario_id /\ r.status = COMPLETE_STATUS
          /\ r.watershed_id \notin Range(watershed_id_work_list)

\* the units whose payloads a stitch_worker holds in its lists
Buffered(st) == Range(st.workspace_list)

\* C5: fed N payloads and then the terminal marker, with batch length 100,
\* the aggregator flushes exactly 100 units at a time while 100 are buffered
\* and the remainder in one last flush (100, 100, 50 for N = 250), and makes
\* exactly one batched status update per flush, over the whole batch.
C5_BatchedFlush ==
    LET n == Cardinality(work_status)
        flushes == stitch_calls[FedScenario]
        updates == status_calls[FedScenario]
    IN  /\ \A i \in 1..Len(flushes) :
              flushes[i] = IF i <= n \div BATCH_SIZE
                           THEN BATCH_SIZE ELSE n % BATCH_SIZE
        /\ Len(updates) <= Len(flushes)
        /\ \A i \in 1..Len(updates) : updates[i] = flushes[i]
        /\ stitcher[FedScenario].pc = "done" =>
              /\ Len(flushes) = n \div BATCH_SIZE + 1
              /\ updates = flushes

\* C5 witness: 250 payloads were fed and stitch_worker has returned after
\* flushes of 100, 100 and 50
C5_Witness ==
    /\ Cardinality(work_status) = 250
    /\ stitcher[FedScenario].pc = "done"
    /\ status_calls[FedScenario] = <<100, 100, 50>>

\* C6: a payload one of whose two rasters does not exist makes stitch_worker
\* raise as it is dequeued: no flush is ever under way with such a payload
\* in its lists, and when the exception is raised no stitch_rasters thread
\* of the scenario runs, and every unit buffered in the unflushed batch is
\* not complete and still has its workspace.
C6_MissingRasterRaisesBeforeMerge ==
    \A s \in ScenarioIds :
        LET st == stitcher[s]
        IN  /\ st.pc \in {"stitch", "join"} =>
                  \A u \in Buffered(st) : unit_raster_paths(u) \subseteq unit_rasters
            /\ st.pc = "raise" =>
                  /\ \A k \in Kinds : stitch_thread[<<s, k>>] = "idle"
                  /\ \E u \in Buffered(st) :
                        ~(unit_raster_paths(u) \subseteq unit_rasters)
                  /\ \A u \in Buffered(st) :
                        /\ u \in workspace_dirs
                        /\ \A r \in work_status :
                              (r.scenario_id = u[1] /\ r.watershed_id = u[2])
                                  => r.status # COMPLETE_STATUS

\* C6 witness: the exception is raised with two payloads in the lists
C6_Witness ==
    \E s \in ScenarioIds :
        /\ stitcher[s].pc = "raise"
        /\ Len(stitcher[s].workspace_list) = 2

\* C7: after an exception in stitch_worker the aggregator is never started
\* again: from the state in which the exception is raised it takes no
\* further payload, it only ends with the exception.
C7_NoRetryAfterException ==
    [][\A s \in ScenarioIds :
            stitcher[s].pc = "raise"
                => stitcher'[s].pc \in {"raise", "dead", "unstarted"}]_vars

\* the raster paths main validates: those of the ids once the scrub loop
\* has given the scrubbed ids their scrub path
ValidatedPaths ==
    {p \in Range([i \in 1..Len(ECOSHARD_ITEMS) |->
                    path_map_after_scrub(DownloadedPathMap)[
                        ECOSHARD_ITEMS[i].id]]) :
        get_gis_type_is_raster(p)}

\* the rasters main validates that are invalid
InvalidPaths ==
    {p \in ValidatedPaths \cap DOMAIN ecoshard_raster :
        detect_invalid_values(ecoshard_raster[p], RTOL_INV) # True}

\* C8: if a validated raster is invalid, main never goes past the gate: no
\* row is inserted, no aggregator is started and no unit is submitted; when
\* it raises, every validation has ended and the list it raises with names
\* every offending raster with its reason; if none is invalid it does not
\* raise.
C8_ValidationGate ==
    /\ InvalidPaths # {} =>
          /\ main_pc \in {"scrub", "scrub_raised", "validate", "gate",
                          "invalid_raised"}
          /\ work_status = {}
          /\ \A s \in ScenarioIds : stitcher[s].pc = "unstarted"
          /\ \A u \in Units : task[u] = "none"
    /\ main_pc = "invalid_raised" =>
          /\ ecoshard_index > Len(ECOSHARD_ITEMS)
          /\ \A p \in InvalidPaths :
                \E i \in 1..Len(invalid_raster_list) :
                    /\ \E id \in EcoshardIds :
                          /\ id = invalid_raster_list[i][1]
                          /\ ecoshard_path_map[id] = p
                    /\ invalid_raster_list[i][2] =
                          detect_invalid_values(ecoshard_raster[p], RTOL_INV)
          /\ Len(invalid_raster_list) = Cardinality(InvalidPaths)
    /\ InvalidPaths = {} => main_pc # "invalid_raised"

\* C8 witness: main has raised over a raster holding 1e35 with nodata -9999
C8_Witness ==
    /\ main_pc = "invalid_raised"
    /\ \E i \in 1..Len(invalid_raster_list) :
          invalid_raster_list[i][2].reason = "large_value"

\* C9: a raster with nodata -9999.0 holding a cell of -9999.0001 is reported
\* invalid by detect_invalid_values with the default rtol.
C9_NearNodataIsFlagged ==
    \A i \in 1..Len(invalid_value_task_list) :
        LET raster == ecoshard_raster[invalid_value_task_list[i].path]
        IN  (/\ raster.nodata = NODATA
             /\ \E b \in 1..Len(raster.blocks) :
                    Fin(-9999 * TICKS_PER_UNIT - 1) \in Range(raster.blocks[b]))
                => invalid_value_task_list[i].result # True

\* C10: a scheduling statement gives a polygon a row exactly if its area is
\* strictly greater than AREA_DEG_THRESHOLD (or it had a row already), and
\* when the pass ends every such polygon has a row for every scenario.
C10_AreaFilter ==
    [][MainSchedule =>
        /\ \A f \in Fids :
              HasRow(work_status', scenario_id, f)
                <=> (\/ watershed_layer[f] > AREA_DEG_THRESHOLD
                     \/ HasRow(work_status, scenario_id, f))
        /\ main_pc' # "schedule" =>
              \A s \in ScenarioIds : \A f \in Fids :
                  watershed_layer[f] > AREA_DEG_THRESHOLD
                      => HasRow(work_status', s, f)]_vars

\* C10 witness: the first scheduling pass has ended: areas 100 and 160 (the
\* threshold) have no row, area 200 has one for each scenario
C10_Witness ==
    /\ run = 1 /\ main_pc = "create_export" /\ scenario_index = 1
    /\ watershed_layer[0] = 100 /\ watershed_layer[1] = AREA_DEG_THRESHOLD
    /\ watershed_layer[2] = 200
    /\ \A s \in ScenarioIds :
          /\ ~HasRow(work_status, s, 0) /\ ~HasRow(work_status, s, 1)
          /\ HasRow(work_status, s, 2)

\* the status of the row of a unit, "" if it has no row
StatusOf(table, u) ==
    IF HasRow(table, u[1], u[2])
    THEN (CHOOSE r \in table :
            r.scenario_id = u[1] /\ r.watershed_id = u[2]).status
    ELSE ""

\* the rows of every unit but u
OtherRows(table, u) ==
    {r \in table : ~(r.scenario_id = u[1] /\ r.watershed_id = u[2])}

\* C11: when ndr_plus raises, the runner writes the failure tag with the
\* exception text into the status of that unit's row and of no other row,
\* puts nothing on a queue, does not pass through the write of COMPUTED, and
\* returns normally: the driver, the other tasks and the aggregators are
\* left as they are.
C11_FailureIsolation ==
    [][\A u \in Units :
        (task[u] = "except" /\ task'[u] # "except" /\ run' = run) =>
            /\ task'[u] = "done"
            /\ StatusOf(work_status', u) = ExceptionStatus
            /\ OtherRows(work_status', u) = OtherRows(work_status, u)
            /\ Cardinality(work_status') = Cardinality(work_status)
            /\ \A v \in Units \ {u} : task'[v] = task[v]
            /\ UNCHANGED <<driver, stitching>>]_vars

\* C11 witness: a unit carries the failure tag of ndr_plus, a sibling of the
\* same scenario is complete and main has ended normally
C11_Witness ==
    /\ main_pc = "done"
    /\ \E u \in Units, v \in Units :
          /\ u[1] = v[1] /\ u # v
          /\ task[u] = "done" /\ StatusOf(work_status, u) = ExceptionStatus
          /\ StatusOf(work_status, v) = COMPLETE_STATUS

\* C12: when COMPUTED has been written and stitch_queue.put raises, the
\* exception leaves the runner: the runner does not return normally from it
\* (it is not turned into a failure tag of the unit).
C12_PutFailurePropagates ==
    [][\A u \in Units :
        task[u] = "put_except" => task'[u] # "done"]_vars

\* C13: with remove_workspaces set, a workspace directory is deleted only
\* when the status of its unit is already complete.
C13_WorkspaceDeletedAfterComplete ==
    [][\A u \in Units :
        (u \in workspace_dirs /\ u \notin workspace_dirs')
            => StatusOf(work_status, u) = COMPLETE_STATUS]_vars

\* C14: in a run, upsample_compress_and_overview runs at most once for each
\* mosaic of each scenario, for both mosaics together, and only when the
\* flush of the terminal marker and its status update are over: nothing is
\* buffered, every flush had its status update, no stitch_rasters thread
\* runs, the queue holds no payload and no task of the scenario is under
\* way; when stitch_worker has returned it has run exactly once.
C14_FinalizeOnce ==
    \A s \in ScenarioIds :
        LET st == stitcher[s]
        IN  /\ \A k \in Kinds : overview_calls[<<s, k>>] <= 1
            /\ overview_calls[<<s, "export">>]
                    = overview_calls[<<s, "modified_load">>]
            /\ overview_calls[<<s, "export">>] = 1 => st.pc = "done"
            /\ st.pc = "done" => overview_calls[<<s, "export">>] = 1
            /\ st.pc \in {"overview", "done"} =>
                  /\ st.payload = NonePayload
                  /\ st.workspace_list = << >>
                  /\ st.export_raster_list = << >>
                  /\ st.modified_load_raster_list = << >>
                  /\ st.status_update_list = << >>
                  /\ Len(stitch_calls[s]) >= 1
                  /\ Len(status_calls[s]) = Len(stitch_calls[s])
                  /\ \A k \in Kinds : stitch_thread[<<s, k>>] = "idle"
                  /\ \A i \in 1..Len(stitch_queue[s]) :
                        stitch_queue[s][i] = NonePayload
                  /\ \A f \in Fids : task[<<s, f>>] \in {"none", "done"}

\* C14 witness: main has ended, every mosaic was finalized once, and a
\* scenario had a flush of a full batch before the flush of the marker
C14_Witness ==
    /\ main_pc = "done"
    /\ \A m \in Mosaics : overview_calls[m] = 1
    /\ \E s \in ScenarioIds :
          Len(stitch_calls[s]) = 2 /\ stitch_calls[s][1] = stitch_batch_size

\* the wait retrying makes after attempt number n fails: 1000 ms, 2000 ms,
\* then the cap
WaitAfter(n) == IF n = 1 THEN 1000 ELSE IF n = 2 THEN 2000 ELSE 3200

\* what holds at every point of a call of _execute_sqlite
SqliteCallInvariant ==
    /\ sqlite_call.attempt_number \in 1..100
    /\ sqlite_call.sleep <= 3200
    /\ sqlite_call.sleep =
            IF sqlite_call.attempt_number = 1 THEN 0
            ELSE WaitAfter(sqlite_call.attempt_number - 1)
    /\ sqlite_call.pc = "returned" =>
            sqlite_call.result =
                IF sqlite_call.fetch = "all" THEN <<"list", sqlite_call.rows>>
                ELSE IF sqlite_call.fetch = "one" /\ Len(sqlite_call.rows) > 0
                THEN <<"list", <<Head(sqlite_call.rows)>> >>
                ELSE << >>
    /\ sqlite_call.pc = "raised" =>
            /\ sqlite_call.attempt_number = 100
            /\ sqlite_call.exception \in SqliteExceptions

\* C15: _execute_sqlite makes at most 100 attempts, waits 1000 ms, 2000 ms
\* and then 3200 ms (never more) between them, returns what the first
\* successful attempt returns, raises the error of the 100th attempt if all
\* fail, and always ends.
C15_BoundedRetry ==
    /\ []SqliteCallInvariant
    /\ [][sqlite_call.pc = "rejected" /\ sqlite_call.attempt_number < 100
            => sqlite_call'.pc = "attempt"]_vars
    /\ <>(sqlite_call.pc \in {"returned", "raised"})

\* C15 witness: the 100th attempt returned after 99 lock errors
C15_Witness ==
    /\ sqlite_call.pc = "returned"
    /\ sqlite_call.attempt_number = 100
    /\ sqlite_call.sleep = 3200
    /\ sqlite_call.fetch = "all" /\ Len(sqlite_call.rows) = 2

\* C16: over any runs and restarts, with or without --watersheds, no row
\* goes from computed back to scheduled, and a complete row never becomes
\* computed or scheduled.
C16_StatusOnlyAdvances ==
    [][\A u \in Units :
        /\ StatusOf(work_status, u) = COMPUTED_STATUS
                => StatusOf(work_status', u) # SCHEDULED_STATUS
        /\ StatusOf(work_status, u) = COMPLETE_STATUS
                => StatusOf(work_status', u)
                        \notin {COMPUTED_STATUS, SCHEDULED_STATUS}]_vars

\* the number of payloads in the flushes of a scenario's stitch_worker
RECURSIVE SumSeq(_)
SumSeq(seq) == IF seq = << >> THEN 0 ELSE Head(seq) + SumSeq(Tail(seq))

\* the units of scenario s whose runner has put its payload in this run
PutUnits(s) ==
    {u \in Units :
        /\ u[1] = s
        /\ task[u] = "done"
        /\ StatusOf(work_status, u) \notin {ExceptionStatus, PutExceptionStatus}}

\* C17: every payload put is taken from the queue once and merged in one
\* flush: when stitch_worker has returned, the flushes held exactly as many
\* payloads as were put, and the rasters of every unit that put a payload
\* are in both mosaics.
C17_PayloadMergedExactlyOnce ==
    \A s \in ScenarioIds :
        stitcher[s].pc = "done" =>
            /\ SumSeq(stitch_calls[s]) = Cardinality(PutUnits(s))
            /\ \A u \in PutUnits(s) : Merged(u[1], u[2])

\* C18: no two stitch_rasters calls write one mosaic at the same time: a
\* thread is started on a mosaic only when no thread of an earlier flush is
\* left on it, running or unjoined; the two threads of a flush are on the
\* two different mosaics of the scenario; threads exist only while the one
\* stitch_worker of the scenario waits at its joins; and main starts the
\* stitch_worker of a scenario only once in a run.
C18_OneWriterPerMosaic ==
    /\ [](\A m \in Mosaics :
            stitch_thread[m] # "idle" => stitcher[m[1]].pc = "join")
    /\ [][\A m \in Mosaics :
            (stitch_thread'[m] = "running" /\ stitch_thread[m] # "running")
                => /\ stitch_thread[m] = "idle"
                   /\ \A k \in Kinds : stitch_thread'[<<m[1], k>>] = "running"
                   /\ \A o \in Mosaics :
                        o[1] # m[1] => stitch_thread'[o] = stitch_thread[o]]_vars
    /\ [][(main_pc = "start_stitch" /\ main_pc' = "query")
            => /\ stitcher[scenario_id].pc = "unstarted"
               /\ \A s \in ScenarioIds \ {scenario_id} :
                    stitcher'[s] = stitcher[s]]_vars

\* C18 witness: the threads of the second flush of a scenario are running
C18_Witness ==
    \E s \in ScenarioIds :
        /\ Len(stitch_calls[s]) = 2
        /\ \A k \in Kinds : stitch_thread[<<s, k>>] = "running"

\* C19: a row becomes complete only in the batched update of a
\* stitch_worker whose status_update_list names it; a step of main creates
\* rows as scheduled and changes no status; a step of a runner leaves the
\* unit computed or with a failure tag, never complete.
C19_OnlyAggregatorCompletes ==
    [][\A u \in Units :
        /\ (StatusOf(work_status', u) = COMPLETE_STATUS
                /\ StatusOf(work_status, u) # COMPLETE_STATUS)
            => \E s \in ScenarioIds :
                /\ stitcher[s].pc = "set_status"
                /\ stitcher'[s].pc # "set_status"
                /\ <<COMPLETE_STATUS, u[1], u[2]>>
                        \in Range(stitcher[s].status_update_list)
        /\ (main_pc' # main_pc /\ StatusOf(work_status', u)
                                        # StatusOf(work_status, u))
            => /\ StatusOf(work_status, u) = ""
               /\ StatusOf(work_status', u) = SCHEDULED_STATUS
        /\ (task'[u] # task[u] /\ StatusOf(work_status', u)
                                        # StatusOf(work_status, u))
            => StatusOf(work_status', u) \in
                    {COMPUTED_STATUS, ExceptionStatus, PutExceptionStatus}]_vars

\* C19 witness: a unit is complete after a batched update of two units
C19_Witness ==
    \E s \in ScenarioIds :
        /\ status_calls[s] # << >> /\ status_calls[s][1] = 2
        /\ \E f \in Fids : StatusOf(work_status, <<s, f>>) = COMPLETE_STATUS

\* C20: when main comes to a scenario it creates each of the two mosaics
\* empty if the file is absent, and leaves an existing mosaic, with what was
\* merged into it, as it is.
C20_MosaicCreatedOnlyIfAbsent ==
    [][(main_pc \in {"create_export", "create_modified_load"}
            /\ main_pc' # main_pc /\ run' = run) =>
        LET m == <<scenario_id,
                   IF main_pc = "create_export"
                   THEN "export" ELSE "modified_load">>
        IN  /\ stitch_raster'[m].exists
            /\ stitch_raster[m].exists => stitch_raster'[m] = stitch_raster[m]
            /\ ~stitch_raster[m].exists => stitch_raster'[m].merged = {}
            /\ \A o \in Mosaics \ {m} : stitch_raster'[o] = stitch_raster[o]]_vars

\* C20 witness: a second run has gone through the creation of a mosaic that
\* holds what the first run merged
C20_Witness ==
    /\ run = 2
    /\ main_pc = "create_modified_load"
    /\ stitch_raster[<<scenario_id, "export">>].merged # {}

\* the units whose payload is in the queue of their scenario
Queued ==
    {u \in Units :
        \E i \in 1..Len(stitch_queue[u[1]]) :
            stitch_queue[u[1]][i] = StitchPayload(u[1], u[2])}

\* C22: a unit becomes computed only in the step of its runner that follows
\* the return of ndr_plus, a payload is put only by a runner that has
\* written COMPUTED, and whenever a payload is in a queue the runner of its
\* unit has written COMPUTED, which the row still shows.
C22_RunnerOrder ==
    /\ [](\A u \in Queued :
            task[u] = "done" /\ StatusOf(work_status, u) = COMPUTED_STATUS)
    /\ [][\A u \in Units :
            /\ (StatusOf(work_status', u) = COMPUTED_STATUS
                    /\ StatusOf(work_status, u) # COMPUTED_STATUS)
                => task[u] = "ran" /\ task'[u] = "computed"
            /\ task'[u] = "ran" /\ task[u] # "ran" => task[u] = "pending"
            /\ (u \in Queued' /\ u \notin Queued)
                => task[u] = "computed" /\ task'[u] = "done"]_vars

\* C22 witness: a payload waits in the queue
C22_Witness ==
    \E u \in Queued : StatusOf(work_status, u) = COMPUTED_STATUS

\* the watershed_area of the row of a unit
AreaOf(u) ==
    (CHOOSE r \in work_status :
        r.scenario_id = u[1] /\ r.watershed_id = u[2]).watershed_area

\* C28: without --watersheds the work list of a scenario is in non-increasing
\* order of watershed_area, and the tasks submitted so far are those of the
\* first entries of the list, in the order of the list.
C28_LargestFirst ==
    (args_watersheds = << >> /\ main_pc \in {"submit", "join_tasks"}) =>
        /\ \A i \in 1..Len(watershed_id_work_list) :
           \A j \in 1..Len(watershed_id_work_list) :
                i < j => AreaOf(<<scenario_id, watershed_id_work_list[i]>>)
                          >= AreaOf(<<scenario_id, watershed_id_work_list[j]>>)
        /\ \A i \in 1..Len(watershed_id_work_list) :
                task[<<scenario_id, watershed_id_work_list[i]>>] # "none"
                    <=> i < watershed_index

\* C28 witness: the unit of area 300 was submitted, that of area 200 not yet
C28_Witness ==
    /\ args_watersheds = << >> /\ main_pc = "submit"
    /\ watershed_id_work_list = <<3, 2>> /\ watershed_index = 2
    /\ AreaOf(<<scenario_id, 3>>) = 300 /\ AreaOf(<<scenario_id, 2>>) = 200

\* C30: the end of a flush that the terminal marker triggered puts one
\* marker on the queue, the end of a flush of a full batch leaves the queue
\* as it is, and when stitch_worker leaves its loop the queue holds a
\* marker.
C30_MarkerReposted ==
    /\ [](\A s \in ScenarioIds :
            stitcher[s].pc \in {"overview", "done"} =>
                /\ stitch_queue[s] # << >>
                /\ stitch_queue[s][Len(stitch_queue[s])] = NonePayload)
    /\ [][\A s \in ScenarioIds :
            (stitcher[s].pc = "set_status" /\ stitcher'[s].pc # "set_status"
                    /\ run' = run) =>
                stitch_queue'[s] =
                    IF stitcher[s].payload = NonePayload
                    THEN Append(stitch_queue[s], NonePayload)
                    ELSE stitch_queue[s]]_vars

\* C30 witness: stitch_worker has returned after a flush of a full batch
\* and the flush of the marker, and the queue holds the marker
C30_Witness ==
    \E s \in ScenarioIds :
        /\ stitcher[s].pc = "done"
        /\ Len(stitch_calls[s]) = 2 /\ stitch_calls[s][1] = stitch_batch_size
        /\ stitch_queue[s] = <<NonePayload>>

\* the entries of invalid_value_task_list that validate the path
ValidationsOf(path) ==
    {i \in 1..Len(invalid_value_task_list) :
        invalid_value_task_list[i].path = path}

\* C24: no path is ever validated twice, and once the validation loop has
\* ended (before anything is scheduled) every raster path of the id-to-path
\* map has been validated exactly once, also a path two ids map to, and no
\* other path has been validated.
C24_EachRasterPathValidatedOnce ==
    /\ \A id \in EcoshardIds :
            Cardinality(ValidationsOf(ecoshard_path_map[id])) <= 1
    /\ main_pc \notin {"scrub", "scrub_raised", "validate"} =>
            \A id \in EcoshardIds :
                Cardinality(ValidationsOf(ecoshard_path_map[id])) =
                    IF get_gis_type_is_raster(ecoshard_path_map[id])
                    THEN 1 ELSE 0
    /\ main_pc \in {"scrub", "scrub_raised", "validate", "gate",
                     "invalid_raised"} => work_status = {} \/ run > 1

\* C24 witness: the loop has ended with two ids that map to one path, which
\* was validated once
C24_Witness ==
    /\ main_pc = "gate"
    /\ \E a, b \in EcoshardIds :
          /\ a # b
          /\ ecoshard_path_map[a] = ecoshard_path_map[b]
          /\ Cardinality(ValidationsOf(ecoshard_path_map[a])) = 1

\* C25: the scrub step writes a scrubbed copy for the ids of SCRUB_IDS and
\* for no other id and leaves the original files alone; it gives the
\* scrubbed ids the path of their copy and leaves the other ids their
\* path; no validation exists before it has ended; every validation reads
\* the path the map has for its id, and the raster paths handed to a unit
\* runner are those of the map: the scrubbed copy for a scrubbed id, the
\* original file for another id.
C25_ScrubBeforeValidation ==
    /\ [](main_pc \in {"scrub", "scrub_raised"} =>
            invalid_value_task_list = << >>)
    /\ [](main_pc \notin {"scrub", "scrub_raised"} =>
            /\ \A id \in EcoshardIds :
                    ecoshard_path_map[id] =
                        IF id \in SCRUB_IDS
                        THEN scrub_path_of(DownloadedPathMap[id])
                        ELSE DownloadedPathMap[id]
            /\ \A id \in SCRUB_IDS :
                    ecoshard_path_map[id] \in DOMAIN ecoshard_raster
            /\ \A i \in 1..Len(invalid_value_task_list) :
                    LET t == invalid_value_task_list[i]
                    IN  /\ t.path = ecoshard_path_map[t.id]
                        /\ t.result = detect_invalid_values(
                                ecoshard_raster[t.path], RTOL_INV))
    /\ [][(main_pc = "scrub" /\ main_pc' = "validate") =>
            /\ DOMAIN ecoshard_raster' \ DOMAIN ecoshard_raster
                    \subseteq {scrub_path_of(DownloadedPathMap[id]) :
                                    id \in SCRUB_IDS}
            /\ \A p \in RasterPaths : ecoshard_raster'[p] = ecoshard_raster[p]
            /\ \A id \in SCRUB_IDS :
                    ecoshard_raster'[scrub_path_of(DownloadedPathMap[id])] =
                        scrub_raster(ecoshard_raster[DownloadedPathMap[id]],
                                     "absent", NoNodata, RTOL_INV).target]_vars
    /\ [][\A u \in Units :
            (task[u] # "pending" /\ task'[u] = "pending") =>
                \A k \in {"lulc_id", "precip_id"} :
                    LET id == SCENARIO_VARS[u[1]][k]
                        path == IF k = "lulc_id"
                                THEN runner_raster_paths(u[1]).lulc
                                ELSE runner_raster_paths(u[1]).precip
                    IN  path = IF id \in SCRUB_IDS
                               THEN scrub_path_of(DownloadedPathMap[id])
                               ELSE DownloadedPathMap[id]]_vars

\* C25 witness: a unit of the scenario whose lulc id is scrubbed has been
\* submitted, the scrubbed copy differs from the original file, and the
\* copy, not the original, was validated for that id
C25_Witness ==
    /\ task[<<"s2", 2>>] = "pending"
    /\ SCENARIO_VARS["s2"].lulc_id \in SCRUB_IDS
    /\ ecoshard_raster[runner_raster_paths("s2").lulc]
            # ecoshard_raster["lulc.tif"]
    /\ \E i \in 1..Len(invalid_value_task_list) :
            /\ invalid_value_task_list[i].id = SCENARIO_VARS["s2"].lulc_id
            /\ invalid_value_task_list[i].path =
                    scrub_path_of(DownloadedPathMap[SCENARIO_VARS["s2"].lulc_id])

\* the cells of the base of the call that scrub_raster altered: those whose
\* value in the target differs from their value in the base
AlteredCells ==
    {pos \in Positions(scrub_call.base_raster) :
        CellAt(scrub_call.target, pos) # CellAt(scrub_call.base_raster, pos)}

\* the valid nodata value of the call
ScrubNodataOfCall ==
    IF scrub_call.target_nodata = NoNodata
    THEN scrub_call.base_raster.nodata ELSE scrub_call.target_nodata

\* C26: when scrub_raster has returned, non_finite_count is the number of
\* altered cells that were non-finite, large_value_count the number of
\* altered cells that were finite of magnitude >= max_abs, close_to_nodata
\* the number of the other altered cells (near nodata), and "is CLEAN" is
\* logged exactly if no cell was altered; so a base whose cells are all
\* valid data or exactly nodata is logged as clean.
C26_CountersAreAlteredCells ==
    scrub_call.pc = "returned" =>
        LET base(pos) == CellAt(scrub_call.base_raster, pos)
        IN  /\ scrub_call.non_finite_count =
                    Cardinality({pos \in AlteredCells : ~isfinite(base(pos))})
            /\ scrub_call.large_value_count =
                    Cardinality({pos \in AlteredCells :
                        isfinite(base(pos)) /\ abs_ge_max_abs(base(pos))})
            /\ scrub_call.close_to_nodata =
                    Cardinality({pos \in AlteredCells :
                        isfinite(base(pos)) /\ ~abs_ge_max_abs(base(pos))})
            /\ (scrub_call.log = "is CLEAN") <=> (AlteredCells = {})

\* C27: a call of scrub_raster raises exactly if the target is the base
\* file, or the nodata of the base and target_nodata are both defined and
\* differ, or both are None; a call that raised left the target as it was
\* (absent, or with its content), and a call that returned wrote it.
C27_BadConfigurationRejected ==
    LET base_nodata == scrub_call.base_raster.nodata
        bad == \/ scrub_call.target_is = "base file"
               \/ /\ base_nodata # NoNodata
                  /\ scrub_call.target_nodata # NoNodata
                  /\ base_nodata # scrub_call.target_nodata
               \/ base_nodata = NoNodata /\ scrub_call.target_nodata = NoNodata
    IN  /\ scrub_call.pc = "raised" =>
                bad /\ scrub_call.target = scrub_call.target_before
        /\ scrub_call.pc = "returned" =>
                ~bad /\ scrub_call.target.nodata = ScrubNodataOfCall
        /\ scrub_call.pc = "called" =>
                scrub_call.target = scrub_call.target_before

\* C27 witness: a call with base nodata -9999 and target_nodata 0 has
\* raised, and the target, which existed, has the content it had
C27_Witness ==
    /\ scrub_call.pc = "raised"
    /\ scrub_call.exception = "nodata conflict"
    /\ scrub_call.target_is = "other file"
    /\ scrub_call.target = CleanRaster

\* the three conditions as the specification words them: non-finite; within
\* rtol of nodata and not equal to it; of magnitude >= max_abs and not close
\* to nodata
SpecNonFinite(c) == ~isfinite(c)

SpecNearNotEqual(c, nodata) ==
    nodata # NoNodata /\ c # nodata /\ isclose(c, nodata, RTOL_INV)

SpecLarge(c, nodata) ==
    /\ abs_ge_max_abs(c)
    /\ (nodata = NoNodata \/ ~isclose(c, nodata, NUMPY_RTOL_INV))

\* the reason the specification gives for a block, "ok" if it has none
SpecBlockReason(block, nodata) ==
    IF AnyCell(block, SpecNonFinite) THEN "non_finite"
    ELSE IF AnyCell(block, LAMBDA c : SpecNearNotEqual(c, nodata))
    THEN "close_to_nodata"
    ELSE IF AnyCell(block, LAMBDA c : SpecLarge(c, nodata))
    THEN "large_value"
    ELSE "ok"

\* the result the specification gives for a raster
SpecDetectResult(raster) ==
    LET offending == {b \in 1..Len(raster.blocks) :
                        SpecBlockReason(raster.blocks[b], raster.nodata)
                            # "ok"}
        first == CHOOSE b \in offending : \A o \in offending : b <= o
    IN  IF offending = {} THEN True
        ELSE [reason |-> SpecBlockReason(raster.blocks[first], raster.nodata),
              block |-> first]

\* C23: the result of every validation is True exactly if no block of the
\* raster holds a non-finite value, a value near nodata and not equal to
\* it, or a value of magnitude >= max_abs not close to nodata; otherwise it
\* is the reason of the first block that holds one, non-finite before
\* near-nodata before large; without a nodata value nothing is near nodata
\* and every value of magnitude >= max_abs is flagged.
C23_DetectResultAsSpecified ==
    \A i \in 1..Len(invalid_value_task_list) :
        invalid_value_task_list[i].result =
            SpecDetectResult(ecoshard_raster[invalid_value_task_list[i].path])

\* C21: a step of the reporter changes no row of work_status, no queue, no
\* mosaic and nothing of main or of an aggregator, also the step in which
\* an exception ends it; every access it has made to the store used the
\* read-only mode; and after the reporter has ended with an exception the
\* aggregator ends its work and main goes on to the next scenario.
C21_ReporterReadOnly ==
    /\ [][reporter' # reporter =>
            UNCHANGED <<disk, driver, task, stitching>>]_vars
    /\ [](reporter.pc \notin {"unstarted", "start"} =>
            reporter.mode = "read_only")
    /\ (reporter.pc = "dead" ~>
            (/\ stitcher[FedScenario].pc = "done"
             /\ main_pc = "create_export"
             /\ scenario_index = 2))

\* C21 witness: the reporter has ended with an exception while units were
\* left to process, and since then the aggregator has marked them complete
\* and main has gone on
C21_Witness ==
    /\ reporter.pc = "dead"
    /\ reporter.exception = "OperationalError"
    /\ reporter.original_watershed_to_process_count
            > count_to_process(work_status, COMPLETE_STATUS)
    /\ \E r \in work_status : r.status = COMPLETE_STATUS
    /\ stitcher[FedScenario].pc = "done"
    /\ main_pc = "create_export"

\* C29: the reporter never ends with a division by zero; after every poll
\* the elapsed time it has divided by is positive, and the time left is the
\* literal 99999999999 exactly if no unit (or less) was processed since the
\* reporter started, else the quotient remaining * elapsed / processed with
\* a positive divisor.
C29_NoDivisionByZero ==
    /\ reporter.exception # "ZeroDivisionError"
    /\ reporter.polls > 0 =>
          /\ reporter.seconds_so_far > 0
          /\ reporter.seconds_so_far >= SLEEP_TIME * reporter.polls
          /\ reporter.processed_so_far <= 0 =>
                reporter.seconds_left = SECONDS_LEFT_UNBOUNDED
          /\ reporter.processed_so_far > 0 =>
                /\ reporter.seconds_left.k = "quotient"
                /\ reporter.seconds_left.den = reporter.processed_so_far
                /\ reporter.seconds_left.num =
                        reporter.current_remaining_to_process
                            * reporter.seconds_so_far

\* C29 witness: a poll found no unit processed and reported the literal,
\* with units left to process
C29_Witness ==
    /\ reporter.pc = "sleep"
    /\ reporter.polls > 0
    /\ reporter.processed_so_far = 0
    /\ reporter.current_remaining_to_process > 0
    /\ reporter.seconds_left = SECONDS_LEFT_UNBOUNDED

\* C32: the step that takes the terminal marker from the queue always
\* starts a flush, whatever the lists hold; and when stitch_worker has
\* returned after N payloads it has made N div 100 + 1 flushes, each with
\* its two stitch_rasters calls and one batched status update, the last of
\* them over the N mod 100 remaining units: over zero units, with empty
\* lists, when N is a multiple of 100 (0 included).
C32_MarkerAlwaysFlushes ==
    /\ [][\A s \in ScenarioIds :
            (/\ stitcher[s].pc = "get"
             /\ stitch_queue[s] # << >>
             /\ Head(stitch_queue[s]) = NonePayload
             /\ stitch_queue'[s] = Tail(stitch_queue[s]))
                => /\ stitcher'[s].pc = "stitch"
                   /\ stitcher'[s].payload = NonePayload]_vars
    /\ [](stitcher[FedScenario].pc = "done" =>
            LET n == Cardinality(work_status)
                flushes == stitch_calls[FedScenario]
                updates == status_calls[FedScenario]
            IN  /\ Len(flushes) = n \div BATCH_SIZE + 1
                /\ Len(updates) = n \div BATCH_SIZE + 1
                /\ flushes[Len(flushes)] = n % BATCH_SIZE
                /\ updates[Len(updates)] = n % BATCH_SIZE
                /\ \A k \in Kinds :
                        stitch_raster[<<FedScenario, k>>].merged = 1..n)

\* C32 witness: 200 payloads were fed and stitch_worker has returned after
\* flushes of 100, 100 and 0 units, the last with an empty status update
C32_Witness ==
    /\ Cardinality(work_status) = 200
    /\ stitcher[FedScenario].pc = "done"
    /\ stitch_calls[FedScenario] = <<100, 100, 0>>
    /\ status_calls[FedScenario] = <<100, 100, 0>>

\* C33: with --watersheds every listed unit is submitted for the scenario
\* whatever its stored status, and no workspace directory is ever removed;
\* without it the aggregator is started with reclamation enabled, the units
\* submitted are rows that are not complete, and every row left unsubmitted
\* is complete
C33_SubsetOrBacklog ==
    /\ [](\A s \in ScenarioIds :
            stitcher[s].pc # "unstarted" =>
                stitcher[s].remove_workspaces = (args_watersheds = << >>))
    /\ []((main_pc \in {"join_tasks", "join_stitch"}
                /\ args_watersheds # << >>) =>
            \A f \in Range(args_watersheds) :
                task[<<scenario_id, f>>] # "none")
    /\ []((main_pc \in {"join_tasks", "join_stitch"}
                /\ args_watersheds = << >>) =>
            \A r \in work_status :
                (/\ r.scenario_id = scenario_id
                 /\ task[<<scenario_id, r.watershed_id>>] = "none")
                    => r.status = COMPLETE_STATUS)
    /\ [][args_watersheds # << >> =>
            workspace_dirs \subseteq workspace_dirs']_vars
    /\ [][args_watersheds = << >> =>
            \A u \in Units :
                (task[u] = "none" /\ task'[u] = "pending") =>
                    \E r \in work_status :
                        /\ r.scenario_id = u[1]
                        /\ r.watershed_id = u[2]
                        /\ r.status # COMPLETE_STATUS]_vars

\* a unit that is complete has been submitted again under --watersheds, the
\* aggregator has ended and the unit's workspace is still there
C33_Witness ==
    /\ args_watersheds # << >>
    /\ \E s \in ScenarioIds :
        /\ stitcher[s].pc = "done"
        /\ stitch_calls[s] # << >>
        /\ \E f \in Range(args_watersheds) :
            /\ task[<<s, f>>] = "done"
            /\ <<s, f>> \in workspace_dirs
            /\ \E r \in work_status :
                /\ r.scenario_id = s /\ r.watershed_id = f
                /\ r.status = COMPLETE_STATUS

\* C34: scenarios are processed one after another: whenever the aggregator
\* of a later scenario has been started or a unit of a later scenario has
\* been submitted, the aggregator of every earlier scenario has ended; an
\* aggregator that returned has made its terminal flush and its finalize
\* pass; at most one aggregator is running at any time
C34_OneScenarioAtATime ==
    LET running(s) == stitcher[s].pc \notin {"unstarted", "done", "dead"}
        ended(s) == stitcher[s].pc \in {"done", "dead"}
        begun(s) == \/ stitcher[s].pc # "unstarted"
                    \/ \E f \in Fids : task[<<s, f>>] # "none"
    IN  /\ Cardinality({s \in ScenarioIds : running(s)}) <= 1
        /\ \A i \in 1..Len(SCENARIOS) : \A j \in (i + 1)..Len(SCENARIOS) :
                begun(SCENARIOS[j]) => ended(SCENARIOS[i])
        /\ \A s \in ScenarioIds :
                stitcher[s].pc = "done" =>
                    /\ stitch_calls[s] # << >>
                    /\ Len(status_calls[s]) = Len(stitch_calls[s])
                    /\ \A k \in Kinds : overview_calls[<<s, k>>] >= 1

\* the second scenario's aggregator is running and one of its units has been
\* submitted, after the first scenario's aggregator returned
C34_Witness ==
    /\ stitcher[SCENARIOS[1]].pc = "done"
    /\ stitcher[SCENARIOS[2]].pc \in {"get", "stitch", "join", "set_status"}
    /\ \E f \in Fids : task[<<SCENARIOS[2], f>>] # "none"

\* the stored status of a unit is `status`
HasStatus(u, status) ==
    \E r \in work_status :
        /\ r.scenario_id = u[1] /\ r.watershed_id = u[2]
        /\ r.status = status

\* C31: the terminal marker is in the queue only when every runner of the
\* scenario has returned, and no payload is behind a marker in the queue;
\* when nothing fails, every unit whose status is COMPUTED eventually has
\* the status COMPLETE, and every aggregator that was started eventually
\* has made its finalize pass and returned
C31_ComputedLeadsToComplete ==
    /\ [](\A s \in ScenarioIds :
            /\ NonePayload \in Range(stitch_queue[s]) =>
                    \A f \in Fids : task[<<s, f>>] \in {"none", "done"}
            /\ \A i \in 1..Len(stitch_queue[s]) :
                    stitch_queue[s][i] = NonePayload =>
                        \A j \in i..Len(stitch_queue[s]) :
                            stitch_queue[s][j] = NonePayload)
    /\ \A u \in Units :
            HasStatus(u, COMPUTED_STATUS) ~> HasStatus(u, COMPLETE_STATUS)
    /\ \A s \in ScenarioIds :
            (stitcher[s].pc # "unstarted") ~>
                (/\ stitcher[s].pc = "done"
                 /\ \A k \in Kinds : overview_calls[<<s, k>>] >= 1)

\* two units of a scenario were computed and merged, are complete, and the
\* aggregator has returned
C31_Witness ==
    \E s \in ScenarioIds :
        /\ stitcher[s].pc = "done"
        /\ \E f, g \in Fids :
            /\ f # g
            /\ task[<<s, f>>] = "done" /\ HasStatus(<<s, f>>, COMPLETE_STATUS)
            /\ task[<<s, g>>] = "done" /\ HasStatus(<<s, g>>, COMPLETE_STATUS)

\* C36: when an attempt of _execute_sqlite raises ValueError for an unknown
\* mode, execute or fetch, the store is as it was before the call, the
\* decorator raises to the caller without calling the function again, and no
\* connection is open
C36_ValueErrorLeavesNoTrace ==
    /\ [](sqlite_call.exception = "ValueError" =>
            /\ work_status = {}
            /\ sqlite_call.connection # "open")
    /\ [][(sqlite_call.pc = "rejected"
                /\ sqlite_call.exception = "ValueError")
            => sqlite_call'.pc = "raised"]_vars

\* C37: when scrub_raster has returned, detect_invalid_values with the same
\* rtol and max_abs returns True for the target, and every cell of the
\* target is the cell of the base at its position or the nodata value of
\* the target
C37_ScrubbedTargetIsValid ==
    scrub_call.pc = "returned" =>
        /\ detect_invalid_values(scrub_call.target, RTOL_INV) = True
        /\ Positions(scrub_call.target) = Positions(scrub_call.base_raster)
        /\ \A pos \in Positions(scrub_call.target) :
                \/ CellAt(scrub_call.target, pos)
                        = CellAt(scrub_call.base_raster, pos)
                \/ CellAt(scrub_call.target, pos) = scrub_call.target.nodata

\* the name of the vector file of the call: its path without the directory
\* and without '.shp'
FileNameOfCall ==
    SubSeq(id_call.watershed_path, Len(WatershedDir) + 2,
           Len(id_call.watershed_path) - 4)

\* C35: _create_watershed_id gives the name of the file as basename, with
\* whatever underscores and digits it holds; _split_watershed_id of
\* the id it made returns, and returns that basename and the feature index
\* of the call; and no other pair of a file name and a feature index is
\* given the same id
C35_IdRoundTrip ==
    /\ id_call.pc \in {"created", "split", "raised"} =>
            id_call.watershed_basename = FileNameOfCall
    /\ id_call.pc = "created" =>
            (\A name \in WatershedNames, fid \in 0..MaxIdFid :
                    _create_watershed_id(watershed_path_of(name), fid)[2]
                            = id_call.watershed_id
                        => /\ name = FileNameOfCall
                           /\ fid = id_call.watershed_fid)
    /\ id_call.pc # "raised"
    /\ id_call.pc = "split" =>
            /\ id_call.basename = id_call.watershed_basename
            /\ id_call.fid = id_call.watershed_fid

\* the id of feature 12 of w_7.shp has been split into w_7 and 12
C35_Witness ==
    /\ id_call.pc = "split"
    /\ id_call.watershed_path
            = <<"w", ".", "d", "/", "w", "_", "7", ".", "s", "h", "p">>
    /\ id_call.watershed_id = <<"w", "_", "7", "_", "1", "2">>
    /\ id_call.basename = <<"w", "_", "7">>
    /\ id_call.fid = 12
====
